---- MODULE Spec2Model ----
(***************************************************************************)
(* Download-link resolution pipeline of ebook-finder: the two route        *)
(* handlers (download, send-to-kindle), the HTTP-only resolver, the        *)
(* "smart" mirror chain and the Playwright navigator, as one sequential    *)
(* state machine per request.  Every await on the network or the browser   *)
(* is a step whose outcome the environment chooses.                        *)
(***************************************************************************)
EXTENDS Integers, Sequences, FiniteSets, Bags, TLC

VARIABLES
    handler,            \* which route handles the request: "download" | "kindle" | "upload"
    source,             \* request body: source
    downloadUrl,        \* request body: downloadUrl (the entry URL)
    bookTitle,          \* request body: bookTitle (send-to-kindle)
    kindleEmail,        \* request body: kindleEmail (send-to-kindle, upload-to-kindle)
    file,               \* form data: file (upload-to-kindle), its name and size
    entryPage,          \* anchors of the document served at downloadUrl
    pc,                 \* position of the request's task
    stack,              \* return positions of the pending calls
    ret,                \* what the last call returned or threw
    actualDownloadUrl,  \* route handlers' local
    response,           \* the handler's response, NoResponse while running
    httpFetches,        \* axios.get calls issued so far
    mailsSent,          \* transporter.sendMail calls that succeeded
    adsUrl,             \* getLibgenDownloadServerless: adsPhpUrl
    attempts,           \* strategies and mirror candidates invoked and what each candidate gave, in order
    sessions,           \* browsers of finished functions: the bag of their close() call counts
    browser,            \* close() calls made on the running function's browser
    page,               \* the browser page of the running navigator: url and anchors
    target,             \* URL argument of the running mirror resolver
    idx,                \* selector / link loop index of the running navigator
    mi,                 \* smartGetLibgenDownload: libgenMirrorLinks consumed
    faults,             \* errors the network, the browser or the mail server have thrown
    popups,             \* playwrightGetDownload: popups, the close() calls made on each
    downloadUrls,       \* playwrightGetDownload: downloadUrls
    refreshes,          \* findDownloadLink: recursive calls after a meta refresh
    fullUrl,            \* extractLibgenGetLink: fullUrl of the link being clicked
    popupCount,         \* extractLibgenGetLink: popupCount
    trace,              \* extractLibgenGetLink: clicks, popup closes and navigations, in order
    download,           \* extractLibgenGetLink: the URL of the download event that fired, if any
    evaded,             \* handleLibgenFlow: the human-behaviour simulation ran to its end and no click followed it yet
    adsHttp,            \* handleLibgenFlow: what the direct HTTP fetch of the current mirror link gave, NULL before it
    patterns,           \* generic patterns the rendered page showed findDownloadLink: timer, refresh, frame
    book,               \* cascadingMetadataSearch: the book whose metadata is searched
    minResults,         \* cascadingMetadataSearch: options.minResults, Undefined when not given
    qi,                 \* cascadingMetadataSearch: position in queries, 0 when no search runs
    issued,             \* cascadingMetadataSearch: the searchFn calls made and what each gave, in order
    usedQuery,          \* cascadingMetadataSearch: usedQuery of the returned value, NoQuery while running
    books,              \* cascadingMetadataSearch: the length of the returned book list, Running before the return
    files,              \* the files of the .cache directory: the entry each one holds
    now,                \* Date.now()
    writer,             \* the (source, query, page) of the setCache that wrote each file, NoCall for none
    stored,             \* the last setCache of each (source, query, page) whose file was written: data and time
    reading,            \* the getCache call that has read an expired entry and not yet deleted it
    got,                \* what the getCache call that just ended returned, NoGet after any other step
    callPc,             \* concurrent playwrightGetDownload calls: the position of each
    callInput,          \* concurrent calls: startUrl of each and what the site shows it
    frames,             \* concurrent calls: the locals of the activations (browser, page, popups, downloadUrls, downloadLink)
    callResult,         \* concurrent calls: what each returned or threw
    asked,              \* search route: source, q and page of the request, NoCall when none is handled
    rpc,                \* search route: the position of the handler
    tried,              \* searchLibgen: the mirrors requested so far and whether each answered, in order
    searched,           \* search route: the book list the search function returned
    searches,           \* search route: calls of the search function made for this request
    writes,             \* search route: setCache calls made for this request
    before,             \* search route: the files of the .cache directory when the request arrived
    answer              \* search route: the response

requestVars == <<handler, source, downloadUrl, bookTitle, kindleEmail, file, entryPage,
          pc, stack, ret, actualDownloadUrl, response, httpFetches, mailsSent,
          adsUrl, attempts, sessions, browser, page, target, idx, mi, faults,
          popups, downloadUrls, refreshes, fullUrl, popupCount, trace, download, evaded, adsHttp, patterns>>

searchVars == <<book, minResults, qi, issued, usedQuery, books>>

cacheVars == <<files, now, writer, stored, reading, got>>

pairVars == <<callPc, callInput, frames, callResult>>

\* what a request of the two route handlers never touches
searchRouteVars == <<asked, rpc, tried, searched, searches, writes, before, answer>>

otherVars == <<searchVars, cacheVars, pairVars, searchRouteVars>>

vars == <<requestVars, otherVars>>

reqVars == <<handler, source, downloadUrl, bookTitle, kindleEmail, file, entryPage>>

routeVars == <<actualDownloadUrl, response, mailsSent>>

browserVars == <<sessions, browser, page, idx>>

navVars == <<popups, downloadUrls, refreshes, fullUrl, popupCount, trace, download, evaded, adsHttp, patterns>>

\***************************************************************************
\* Strings (JavaScript String methods used by the resolvers)
\***************************************************************************

\* null / undefined
NULL == "<null>"

\* JavaScript truthiness of a string-or-null value
Truthy(v) == v # NULL /\ v # ""

Sub(s, i, j) == IF i > Len(s) \/ j < i THEN "" ELSE SubSeq(s, i, IF j > Len(s) THEN Len(s) ELSE j)

\* (the string argument is bound once, v, and then read)
StartsWith(s, p) == \E v \in {s} : Len(v) >= Len(p) /\ SubSeq(v, 1, Len(p)) = p

EndsWith(s, p) == \E v \in {s} : Len(v) >= Len(p) /\ SubSeq(v, Len(v) - Len(p) + 1, Len(v)) = p

Includes(s, p) == \E v \in {s} : \E i \in 1..(Len(v) - Len(p) + 1) : SubSeq(v, i, i + Len(p) - 1) = p

LowerCase == "abcdefghijklmnopqrstuvwxyz"

UpperCase == "ABCDEFGHIJKLMNOPQRSTUVWXYZ"

MapChar(c, from, to) ==
    IF \E i \in 1..Len(from) : SubSeq(from, i, i) = c
    THEN LET i == CHOOSE k \in 1..Len(from) : SubSeq(from, k, k) = c IN SubSeq(to, i, i)
    ELSE c

\* the characters of s from position i on, each one mapped
RECURSIVE MapFrom(_, _, _, _)
MapFrom(s, i, from, to) ==
    IF i > Len(s) THEN ""
    ELSE CHOOSE r \in { MapChar(SubSeq(s, i, i), from, to) \o MapFrom(v, j, from, to) :
                          v \in {s}, j \in {i + 1} } : TRUE

MapString(s, from, to) == CHOOSE r \in { MapFrom(v, 1, from, to) : v \in {s} } : TRUE

ToUpperCase(s) == MapString(s, LowerCase, UpperCase)

ToLowerCase(s) == MapString(s, UpperCase, LowerCase)

RECURSIVE Trim(_)
Trim(s) ==
    IF s = "" THEN ""
    ELSE IF SubSeq(s, 1, 1) = " " THEN Trim(Sub(s, 2, Len(s)))
    ELSE IF SubSeq(s, Len(s), Len(s)) = " " THEN Trim(Sub(s, 1, Len(s) - 1))
    ELSE s

\* url.match(/\.(epub|mobi|pdf|azw3)$/i)
IsFileUrl(u) ==
    \E ext \in {".epub", ".mobi", ".pdf", ".azw3"} : EndsWith(ToLowerCase(u), ext)

\* length of "http://" or "https://" when u has it at position i, else 0
SchemeAt(u, i) ==
    IF Sub(u, i, i + 7) = "https://" THEN Len("https://")
    ELSE IF Sub(u, i, i + 6) = "http://" THEN Len("http://")
    ELSE 0

\* positions where /(https?:\/\/[^\/]+)/ matches
OriginStarts(u) ==
    { i \in 1..Len(u) : /\ SchemeAt(u, i) > 0
                        /\ i + SchemeAt(u, i) <= Len(u)
                        /\ SubSeq(u, i + SchemeAt(u, i), i + SchemeAt(u, i)) # "/" }

HasOrigin(u) == OriginStarts(u) # {}

\* u.match(/(https?:\/\/[^\/]+)/)[1]
Origin(u) ==
    LET i == CHOOSE k \in OriginStarts(u) : \A m \in OriginStarts(u) : k <= m
        j == i + SchemeAt(u, i)
        e == CHOOSE k \in j..Len(u) :
                /\ \A m \in j..k : SubSeq(u, m, m) # "/"
                /\ k = Len(u) \/ SubSeq(u, k + 1, k + 1) = "/"
    IN SubSeq(u, i, e)

\***************************************************************************
\* Documents: a document is the sequence of its <a> elements
\***************************************************************************

Anchor(text, href, visible) == [text |-> text, href |-> href, visible |-> visible]

\* hrefs (in document order) of the anchors satisfying P
HrefsWhere(doc, P(_)) ==
    LET hits == SelectSeq(doc, P) IN [i \in 1..Len(hits) |-> hits[i].href]

\* $(selector).first().attr('href'): href of the first anchor satisfying P
FirstHref(doc, P(_)) ==
    IF \E i \in 1..Len(doc) : P(doc[i])
    THEN doc[CHOOSE i \in 1..Len(doc) : P(doc[i]) /\ \A k \in 1..(i - 1) : ~P(doc[k])].href
    ELSE NULL

AnnasAnchor == Anchor("Anna's Archive", "https://annas-archive.org/md5/abc", TRUE)
RandombookAnchor == Anchor("Randombook", "https://randombook.org/book/abc", TRUE)
AdsAnchor == Anchor("Libgen", "/ads.php?md5=abc", TRUE)
MirrorAnchor == Anchor("Libgen.li", "https://libgen.li/ads.php?md5=abc", TRUE)
MirrorFileAnchor == Anchor("Libgen mirror", "https://libgen.li/file.php?id=1", TRUE)
HomeAnchor == Anchor("Home", "/index.php", TRUE)

\* file.php documents the resolvers are run on
EntryPages == { <<>>, <<HomeAnchor>>, <<AdsAnchor>>, <<MirrorAnchor>>, <<MirrorFileAnchor>>,
                <<AnnasAnchor>>, <<AdsAnchor, AnnasAnchor>>, <<HomeAnchor, RandombookAnchor>>,
                <<AdsAnchor, RandombookAnchor, AnnasAnchor>> }

GenuineGet == Anchor("GET", "/get.php?md5=abc&key=xyz", TRUE)
HiddenGet == Anchor("GET", "/get.php?md5=abc&key=xyz", FALSE)
WordyGet == Anchor("Get it now", "/get.php?md5=abc&key=ad", TRUE)
AdGet == Anchor("GET", "https://ads.example/click", TRUE)

\* ads.php documents
AdsPages == { <<>>, <<GenuineGet>>, <<HiddenGet>>, <<WordyGet>>, <<AdGet>>, <<AdGet, GenuineGet>> }

\***************************************************************************
\* Requests
\***************************************************************************

LibgenUrls == { "https://libgen.li/file.php?id=1", "https://libgen.is/book/index.php?md5=abc",
                "https://libgen.is/get.php?md5=abc" }

OtherUrls == { "https://www.gutenberg.org/ebooks/1.epub", "ftp://mirror.example/1.epub",
               "data:application/epub+zip;base64,QUJD" }

Sources == { "libgen", "gutenberg", "archive", "web" }

\* a response: HTTP status, which return statement produced it, and the
\* libgenUrl and downloadUrl fields of its JSON body (NULL when absent)
Response(status, kind, libgenUrl, dlUrl) ==
    [status |-> status, kind |-> kind, libgenUrl |-> libgenUrl, downloadUrl |-> dlUrl]

NoResponse == Response(0, "none", NULL, NULL)

\* a browser page: its URL, its anchors, and whether the element handles the
\* running function holds belong to the document now loaded
PageAt(url, doc) == [url |-> url, doc |-> doc, attached |-> FALSE]

NoPage == PageAt(NULL, <<>>)

NoRet == [t |-> "val", v |-> NULL]

\* let browser = null
NoBrowser == -1

KindleEmails == { "me@kindle.com", "me@gmail.com", "" }

\* a kindleEmail that is not a string: a number in the JSON body, a File in the form data
NotAString == "<number>"

\* formData.get('file') gave null
NoFile == [name |-> NULL, size |-> 0]

\* const maxSize = 50 * 1024 * 1024
MaxSize == 50 * 1024 * 1024

Uploads == { NoFile,
             [name |-> "book.epub", size |-> 1], [name |-> "Book.EPUB", size |-> MaxSize],
             [name |-> "book.exe", size |-> 1], [name |-> "epub", size |-> 1],
             [name |-> "book.pdf", size |-> MaxSize + 1] }

\* options.minResults not given
Undefined == -1

NoQuery == [query |-> NULL, queryType |-> NULL, success |-> FALSE, booksFound |-> 0]

NoBook == [isbn |-> NULL, md5 |-> NULL, title |-> NULL, author |-> NULL]

\* cascadingMetadataSearch has not returned
Running == -2

\* no cascading search is running
NoSearch ==
    /\ book = NoBook
    /\ minResults = Undefined
    /\ qi = 0
    /\ issued = <<>>
    /\ usedQuery = NoQuery
    /\ books = Running

\* const CACHE_DURATION = 24 * 60 * 60 * 1000
CACHE_DURATION == 24 * 60 * 60 * 1000

\* getCacheKey: query.toLowerCase().replace(/[^a-z0-9]/g, '_')
RECURSIVE SanitizeFrom(_, _)
SanitizeFrom(s, i) ==
    IF i > Len(s) THEN ""
    ELSE (IF Includes("abcdefghijklmnopqrstuvwxyz0123456789", SubSeq(s, i, i)) THEN SubSeq(s, i, i) ELSE "_")
         \o SanitizeFrom(s, i + 1)

GetCacheKey(k) ==
    k.source \o "_" \o SanitizeFrom(ToLowerCase(k.query), 1) \o "_page" \o ToString(k.page) \o ".json"

\* the searches cached: (source, query, page)
SearchKeys == [source : {"libgen"}, query : {"c#", "c+", "dune"}, page : {1}]

CachePaths == { GetCacheKey(k) : k \in SearchKeys }

\* search results
Results == { "result A", "result B" }

\* readFile throws ENOENT
NoEntry == [data |-> NULL, timestamp |-> 0, expiresAt |-> 0]

NoStore == [data |-> NULL, at |-> 0]

NoCall == [source |-> NULL, query |-> NULL, page |-> 0]

NoGet == [key |-> NoCall, at |-> 0, data |-> NULL]

\* the cache directory is empty and no cache call runs
NoCache ==
    /\ files = [p \in CachePaths |-> NoEntry]
    /\ now = 0
    /\ writer = [p \in CachePaths |-> NoCall]
    /\ stored = [k \in SearchKeys |-> NoStore]
    /\ reading = NoCall
    /\ got = NoGet

NoAnswer == [status |-> 0, cached |-> FALSE, data |-> NULL, message |-> NULL]

\* no search request is being handled
NoLookup ==
    /\ asked = NoCall
    /\ rpc = "idle"
    /\ tried = <<>>
    /\ searched = NULL
    /\ searches = 0
    /\ writes = 0
    /\ before = <<>>
    /\ answer = NoAnswer

\* the resolution calls that run at the same time
Calls == {1, 2}

\* the locals of one activation of playwrightGetDownload before its first statement
NoFrame == [browser |-> [id |-> 0, closed |-> 0], page |-> NoPage, popups |-> <<>>,
            downloadUrls |-> <<>>, downloadLink |-> NULL]

NoInput == [startUrl |-> NULL, doc |-> <<>>, popups |-> 0, gotoFails |-> FALSE]

\* no concurrent calls are running
NoCalls ==
    /\ callPc = [i \in Calls |-> "idle"]
    /\ callInput = [i \in Calls |-> NoInput]
    /\ frames = [i \in Calls |-> NoFrame]
    /\ callResult = [i \in Calls |-> NoRet]

Init ==
    /\ \/ /\ handler \in {"download", "kindle"}
          /\ file = NoFile
          /\ \/ /\ source = "libgen" /\ downloadUrl \in LibgenUrls /\ entryPage \in EntryPages
                /\ IF handler = "kindle"
                   THEN bookTitle = "Book" /\ kindleEmail \in KindleEmails \cup {NotAString}
                   ELSE bookTitle = "" /\ kindleEmail = ""
             \/ /\ source \in Sources \ {"libgen"} /\ downloadUrl \in OtherUrls \cup {""}
                /\ entryPage = <<>>
                /\ IF handler = "kindle"
                   THEN bookTitle \in {"Book", ""} /\ kindleEmail \in KindleEmails \cup {NotAString}
                   ELSE bookTitle = "" /\ kindleEmail = ""
       \/ /\ handler = "upload"
          /\ file \in Uploads
          /\ kindleEmail \in KindleEmails \cup {"me@free.kindle.com", NotAString}
          /\ source = "" /\ downloadUrl = "" /\ bookTitle = "" /\ entryPage = <<>>
    /\ pc = "start"
    /\ stack = <<>>
    /\ ret = NoRet
    /\ actualDownloadUrl = ""
    /\ response = NoResponse
    /\ httpFetches = 0
    /\ mailsSent = 0
    /\ adsUrl = NULL
    /\ attempts = <<>>
    /\ sessions = EmptyBag
    /\ browser = NoBrowser
    /\ page = NoPage
    /\ target = NULL
    /\ idx = 0
    /\ mi = 0
    /\ faults = 0
    /\ popups = <<>>
    /\ downloadUrls = <<>>
    /\ refreshes = 0
    /\ fullUrl = NULL
    /\ popupCount = 0
    /\ trace = <<>>
    /\ download = NULL
    /\ evaded = FALSE
    /\ adsHttp = NULL
    /\ patterns = {}
    /\ NoSearch
    /\ NoCache
    /\ NoCalls
    /\ NoLookup

\***************************************************************************
\* Calls, returns and exceptions
\***************************************************************************

\* errors thrown by the environment in one request
MaxFaults == 1

\* an awaited call on the network, the browser or the mail server rejects
Fault == faults < MaxFaults /\ faults' = faults + 1

\* the value of a finished call is read by the step that follows it, then dropped
Jump(l) == pc' = l /\ ret' = NoRet /\ UNCHANGED <<stack, otherVars>>

Push(fn, back) == pc' = fn /\ stack' = <<back>> \o stack /\ ret' = NoRet /\ UNCHANGED otherVars

Pop(t, v) == pc' = Head(stack) /\ stack' = Tail(stack) /\ ret' = [t |-> t, v |-> v] /\ UNCHANGED otherVars

Goto(l) == Jump(l) /\ UNCHANGED faults

Call(fn, back) == Push(fn, back) /\ UNCHANGED faults

Return(v) == Pop("val", v) /\ UNCHANGED faults

\* throw new Error(msg)
Throw(msg) == Pop("err", msg) /\ UNCHANGED faults

Respond(r) == Jump("done") /\ response' = r /\ UNCHANGED faults

\* the same steps taken because an awaited call rejected: control goes to the
\* enclosing catch block (Caught*), or the error leaves the function (Raise)
Caught(l) == Jump(l) /\ Fault

CaughtCall(fn, back) == Push(fn, back) /\ Fault

CaughtReturn(v) == Pop("val", v) /\ Fault

CaughtRespond(r) == Jump("done") /\ response' = r /\ Fault

Raise(msg) == Pop("err", msg) /\ Fault

\***************************************************************************
\* getLibgenDownloadServerless
\***************************************************************************

\* https://libgen.li-relative resolution of an href found by the HTTP scrapers
LibgenLiAbsolute(href) ==
    IF StartsWith(href, "http") THEN href
    ELSE IF StartsWith(href, "/") THEN "https://libgen.li" \o href
    ELSE "https://libgen.li/" \o href

HasAdsHref(a) == Truthy(a.href) /\ Includes(a.href, "/ads.php")

\* the GET-link test of the HTTP scrapers: GET text or a get.php href
HttpGetLink(a) ==
    /\ Includes(ToUpperCase(Trim(a.text)), "GET") \/ (Truthy(a.href) /\ Includes(a.href, "/get.php"))
    /\ Truthy(a.href)

\* step 1: fetch file.php and collect the ads.php links
Serverless_FetchFilePhp ==
    /\ pc = "sv_file"
    /\ httpFetches' = httpFetches + 1
    /\ \/ /\ Raise("LibGen serverless scraping failed: network")
          /\ UNCHANGED adsUrl
       \/ LET adsLinks == HrefsWhere(entryPage, HasAdsHref) IN
          IF adsLinks = <<>>
          THEN Throw("LibGen serverless scraping failed: No ads.php link found on file.php page")
               /\ UNCHANGED adsUrl
          ELSE /\ adsUrl' = LibgenLiAbsolute(adsLinks[1])
               /\ Goto("sv_ads")
    /\ UNCHANGED <<reqVars, navVars, routeVars, browserVars, attempts, target, mi>>

\* step 2: fetch ads.php and return the first GET link
Serverless_FetchAdsPhp ==
    /\ pc = "sv_ads"
    /\ httpFetches' = httpFetches + 1
    /\ adsUrl' = NULL
    /\ \/ Raise("LibGen serverless scraping failed: network")
       \/ \E adsPage \in AdsPages :
            LET getLinks == HrefsWhere(adsPage, HttpGetLink) IN
            IF getLinks = <<>>
            THEN Throw("LibGen serverless scraping failed: No GET download link found on ads.php page")
            ELSE Return(LibgenLiAbsolute(getLinks[1]))
    /\ UNCHANGED <<reqVars, navVars, routeVars, browserVars, attempts, target, mi>>

\***************************************************************************
\* Browser sessions
\***************************************************************************

\* chromium.launch() resolved: a new browser with no close() yet; the one the
\* previous function held is out of reach from here on
Launch ==
    /\ sessions' = IF browser = NoBrowser THEN sessions ELSE sessions (+) SetToBag({browser})
    /\ browser' = 0

\* browser.close() called on the browser the running function holds
Close == browser' = browser + 1 /\ UNCHANGED sessions

\* browsers launched so far
Launches == BagCardinality(sessions) + (IF browser = NoBrowser THEN 0 ELSE 1)

HrefHas(a, s) == Truthy(a.href) /\ Includes(a.href, s)

\* Playwright :has-text(): case-insensitive substring of the element's text
HasText(a, s) == Includes(ToLowerCase(a.text), ToLowerCase(s))

\* index of the first anchor of doc satisfying P, 0 when there is none
FirstIndex(doc, P(_)) ==
    IF \E k \in 1..Len(doc) : P(doc[k])
    THEN CHOOSE k \in 1..Len(doc) : P(doc[k]) /\ \A m \in 1..(k - 1) : ~P(doc[m])
    ELSE 0

\* the first k in from..n with P(k), n + 1 when there is none: where a loop
\* that skips the elements failing P does its next piece of work
NextIndex(n, from, P(_)) ==
    IF \E k \in from..n : P(k)
    THEN CHOOSE k \in from..n : P(k) /\ \A m \in from..(k - 1) : ~P(m)
    ELSE n + 1

\***************************************************************************
\* extractGetLinkFromPage
\***************************************************************************

\* href made absolute against the origin of baseUrl
FullUrl(href, baseUrl) == IF StartsWith(href, "http") THEN href ELSE Origin(baseUrl) \o href

\* the test of the main loop: get.php href with md5 and key, visible, GET text
LegitimateGetLink(a) ==
    /\ Truthy(a.href)
    /\ Includes(a.href, "/get.php?md5=")
    /\ Includes(a.href, "&key=")
    /\ a.visible
    /\ Includes(ToUpperCase(a.text), "GET")

\* the selector of the fallback: a[href*="/get.php"]:has-text("GET")
FallbackGetLink(a) == HrefHas(a, "/get.php") /\ HasText(a, "GET")

ExtractGetLinkFromPage(doc, baseUrl) ==
    IF ~HasOrigin(baseUrl) THEN NULL
    ELSE IF FirstIndex(doc, LegitimateGetLink) > 0
    THEN FullUrl(doc[FirstIndex(doc, LegitimateGetLink)].href, baseUrl)
    ELSE IF FirstIndex(doc, FallbackGetLink) > 0
    THEN FullUrl(doc[FirstIndex(doc, FallbackGetLink)].href, baseUrl)
    ELSE NULL

\***************************************************************************
\* resolveAdsPhp
\***************************************************************************

\* a resolver whose launch is outside its try block
ResolveAdsPhp_LaunchUnguarded ==
    /\ pc = "rp_launch"
    /\ \/ Raise("launch") /\ UNCHANGED <<sessions, browser>>
       \/ Raise("newContext") /\ Launch
       \/ Goto("rp_goto") /\ Launch
    /\ UNCHANGED <<reqVars, navVars, routeVars, httpFetches, adsUrl, attempts, page, target, idx, mi>>

ResolveAdsPhp_Launch ==
    /\ pc = "rp_launch"
    /\ \/ CaughtReturn(NULL) /\ UNCHANGED <<sessions, browser>>   \* import or launch threw
       \/ CaughtReturn(NULL) /\ Launch                             \* newContext or newPage threw
       \/ Goto("rp_goto") /\ Launch
    /\ UNCHANGED <<reqVars, navVars, routeVars, httpFetches, adsUrl, attempts, page, target, idx, mi>>

ResolveAdsPhp_Extract ==
    /\ pc = "rp_goto"
    /\ \/ Caught("rp_catch") /\ UNCHANGED <<sessions, browser, page>>   \* goto threw
       \/ \E doc \in AdsPages :
            /\ page' = PageAt(target, doc)
            /\ Close
            /\ \/ Return(ExtractGetLinkFromPage(doc, target))
               \/ Caught("rp_catch")                         \* close threw
    /\ UNCHANGED <<reqVars, navVars, routeVars, httpFetches, adsUrl, attempts, target, idx, mi>>

ResolveAdsPhp_Catch ==
    /\ pc = "rp_catch"
    /\ Close
    /\ Return(NULL) \/ CaughtReturn(NULL)                   \* close threw: the outer catch
    /\ UNCHANGED <<reqVars, navVars, routeVars, httpFetches, adsUrl, attempts, page, target, idx, mi>>

\***************************************************************************
\* navigateLibgenMirrorWithPlaywright
\***************************************************************************

MirrorLinkSelectors == <<"Libgen.li", "Libgen mirror", "libgen.li/ads.php", "/ads.php?md5=">>

\* selectors 1 and 2 are a:has-text(..), 3 and 4 are a[href*=..]
MirrorLinkMatches(a, k) ==
    IF k <= 2 THEN HasText(a, MirrorLinkSelectors[k]) ELSE HrefHas(a, MirrorLinkSelectors[k])

\* documents a mirror link that is not an ads.php URL leads to
MirrorFilePages == { <<>>, <<AdsAnchor>>, <<HomeAnchor, MirrorAnchor>>, <<MirrorFileAnchor>> }

NavigateMirror_Launch ==
    /\ pc = "nm_launch"
    /\ \/ CaughtReturn(NULL) /\ UNCHANGED <<sessions, browser>>
       \/ CaughtReturn(NULL) /\ Launch
       \/ Goto("nm_goto") /\ Launch
    /\ UNCHANGED <<reqVars, navVars, routeVars, httpFetches, adsUrl, attempts, page, target, idx, mi>>

NavigateMirror_Goto ==
    /\ pc = "nm_goto"
    /\ \/ Caught("nm_catch") /\ UNCHANGED <<page, idx>>
       \/ IF Includes(target, "/ads.php")
          THEN \E doc \in AdsPages :
                 /\ page' = PageAt(target, doc)
                 /\ Return(ExtractGetLinkFromPage(doc, target))   \* returns with the browser open
                 /\ UNCHANGED idx
          ELSE \E doc \in MirrorFilePages :
                 /\ page' = PageAt(target, doc)
                 /\ idx' = 1
                 /\ Goto("nm_click")
    /\ UNCHANGED <<reqVars, navVars, routeVars, httpFetches, adsUrl, attempts, sessions, browser, target, mi>>

NavigateMirror_Click ==
    /\ pc = "nm_click"
    /\ IF idx > Len(MirrorLinkSelectors)
       THEN /\ Close
            /\ Return(NULL) \/ Caught("nm_catch")
            /\ idx' = 0
            /\ UNCHANGED page
       ELSE LET k == FirstIndex(page.doc, LAMBDA a : MirrorLinkMatches(a, idx)) IN
            IF k = 0
            THEN idx' = idx + 1 /\ Goto("nm_click") /\ UNCHANGED <<sessions, browser, page>>
            ELSE \/ Caught("nm_catch") /\ idx' = 0 /\ UNCHANGED <<sessions, browser, page>>  \* click threw
                 \/ idx' = idx + 1 /\ Goto("nm_click") /\ UNCHANGED <<sessions, browser, page>>  \* no navigation
                 \/ \E doc \in AdsPages :
                      LET newUrl == FullUrl(page.doc[k].href, page.url) IN
                      /\ page' = PageAt(newUrl, doc)
                      /\ IF Includes(newUrl, "/ads.php")
                         THEN /\ Close
                              /\ Return(ExtractGetLinkFromPage(doc, newUrl)) \/ Caught("nm_catch")
                              /\ idx' = 0
                         ELSE idx' = idx + 1 /\ Goto("nm_click") /\ UNCHANGED <<sessions, browser>>
    /\ UNCHANGED <<reqVars, navVars, routeVars, httpFetches, adsUrl, attempts, target, mi>>

\* a catch block that closes the browser and rethrows
NavigateMirror_CatchRethrows ==
    /\ pc = "nm_catch"
    /\ Close
    /\ Throw("navigation")
    /\ UNCHANGED <<reqVars, navVars, routeVars, httpFetches, adsUrl, attempts, page, target, idx, mi>>

NavigateMirror_Catch ==
    /\ pc = "nm_catch"
    /\ Close
    /\ Return(NULL) \/ CaughtReturn(NULL)
    /\ UNCHANGED <<reqVars, navVars, routeVars, httpFetches, adsUrl, attempts, page, target, idx, mi>>

\***************************************************************************
\* resolveAnnasArchive, navigateAnnasArchiveWithPlaywright
\***************************************************************************

SlowAnchor == Anchor("Slow Download", "/slow_download/abc/0/0", TRUE)
IpfsAnchor == Anchor("IPFS", "https://ipfs.io/ipfs/abc", TRUE)
EpubAnchor == Anchor("epub", "https://files.example/abc.epub", TRUE)
IpfsSchemeAnchor == Anchor("ipfs", "ipfs://bafyabc", TRUE)
SearchAnchor == Anchor("More", "https://annas-archive.org/search?q=download", TRUE)

\* Anna's Archive documents, as fetched and as rendered
AnnasPages == { <<>>, <<SlowAnchor>>, <<IpfsAnchor>>, <<SlowAnchor, EpubAnchor>>,
                <<EpubAnchor, IpfsAnchor>>, <<IpfsSchemeAnchor>>, <<SearchAnchor>> }

AnnasSelectors == <<"/slow_download/", "/fast_download/", "cloudflare", "ipfs.io",
                    ".epub", ".mobi", ".pdf">>

\* a pick decided by the first selector that matches any anchor
FirstMatchOfFirstSelector(doc, selectors) ==
    LET hit(k) == FirstHref(doc, LAMBDA a : HrefHas(a, selectors[k]))
    IN IF \E k \in 1..Len(selectors) : Truthy(hit(k))
       THEN hit(CHOOSE k \in 1..Len(selectors) : Truthy(hit(k)) /\ \A m \in 1..(k - 1) : ~Truthy(hit(m)))
       ELSE NULL

\* a pick that takes the first anchor whatever its href
FirstAnchorHref(doc, selectors) == IF doc = <<>> THEN NULL ELSE doc[1].href

\* selectors tried in order; the first whose first match is an http link wins
FirstDirectLink(doc, selectors) ==
    LET hit(k) == FirstHref(doc, LAMBDA a : HrefHas(a, selectors[k]))
        ok(k) == Truthy(hit(k)) /\ StartsWith(hit(k), "http")
    IN IF \E k \in 1..Len(selectors) : ok(k)
       THEN hit(CHOOSE k \in 1..Len(selectors) : ok(k) /\ \A m \in 1..(k - 1) : ~ok(m))
       ELSE NULL

ResolveAnnas_Http ==
    /\ pc = "ra_http"
    /\ httpFetches' = httpFetches + 1
    /\ \/ CaughtCall("na_launch", "ra_retry")                      \* axios threw
       \/ \E doc \in AnnasPages :
            IF Truthy(FirstDirectLink(doc, AnnasSelectors))
            THEN Return(FirstDirectLink(doc, AnnasSelectors))
            ELSE Call("na_launch", "ra_first")
    /\ UNCHANGED <<reqVars, navVars, routeVars, adsUrl, attempts, browserVars, target, mi>>

\* the Playwright run inside the try, and the one inside the catch
ResolveAnnas_AfterPlaywright ==
    /\ pc \in {"ra_first", "ra_retry"}
    /\ IF ret.t = "val" THEN Return(ret.v)
       ELSE IF pc = "ra_first" THEN Call("na_launch", "ra_retry")
       ELSE Return(NULL)
    /\ UNCHANGED <<reqVars, navVars, routeVars, httpFetches, adsUrl, attempts, browserVars, target, mi>>

AnnasButtonSelectors == <<"button:has-text(Slow Download)", "button:has-text(Fast Download)",
                          "a:has-text(Download)", "button:has-text(Download)",
                          ".download-button", "[data-action=download]">>

\* contents of an intercepted download
Payloads == { <<80, 75, 3>>, <<37, 80, 68, 70>> }

Base64Alphabet == "ABCDEFGHIJKLMNOPQRSTUVWXYZabcdefghijklmnopqrstuvwxyz0123456789+/"

Base64Char(n) == SubSeq(Base64Alphabet, n + 1, n + 1)

\* Buffer.toString('base64')
RECURSIVE Base64(_)
Base64(bytes) ==
    IF bytes = <<>> THEN ""
    ELSE IF Len(bytes) = 1
    THEN Base64Char(bytes[1] \div 4) \o Base64Char((bytes[1] % 4) * 16) \o "=="
    ELSE IF Len(bytes) = 2
    THEN Base64Char(bytes[1] \div 4) \o Base64Char((bytes[1] % 4) * 16 + bytes[2] \div 16)
         \o Base64Char((bytes[2] % 16) * 4) \o "="
    ELSE Base64Char(bytes[1] \div 4) \o Base64Char((bytes[1] % 4) * 16 + bytes[2] \div 16)
         \o Base64Char((bytes[2] % 16) * 4 + bytes[3] \div 64) \o Base64Char(bytes[3] % 64)
         \o Base64(SubSeq(bytes, 4, Len(bytes)))

DataUri(bytes) == "data:application/octet-stream;base64," \o Base64(bytes)

\* the link filter of the fallback after the click
AnnasDownloadLink(doc) ==
    FirstHref(doc, LAMBDA a :
        /\ \E s \in {"cloudflare", "ipfs", "download", ".epub", ".mobi", ".pdf"} : HrefHas(a, s)
        /\ ~Includes(a.href, "/search?")
        /\ ~Includes(a.href, "/member_codes?")
        /\ ~Includes(a.href, "annas-archive.org/md5/")
        /\ ~Includes(a.href, "filepath:")
        /\ IsFileUrl(a.href) \/ Includes(a.href, "cloudflare") \/ Includes(a.href, "ipfs"))

IpfsToHttp(link) ==
    IF StartsWith(link, "ipfs://")
    THEN "https://dweb.link/ipfs/" \o Sub(link, Len("ipfs://") + 1, Len(link))
    ELSE link

NavigateAnnas_Launch ==
    /\ pc = "na_launch"
    /\ \/ Raise("launch") /\ UNCHANGED <<sessions, browser>>
       \/ Raise("newContext") /\ Launch
       \/ Goto("na_goto") /\ Launch
    /\ UNCHANGED <<reqVars, navVars, routeVars, httpFetches, adsUrl, attempts, page, target, idx, mi>>

NavigateAnnas_Goto ==
    /\ pc = "na_goto"
    /\ \/ Caught("na_catch") /\ UNCHANGED idx
       \/ Goto("na_button") /\ idx' = 1
    /\ UNCHANGED <<reqVars, navVars, routeVars, httpFetches, adsUrl, attempts, sessions, browser, page, target, mi>>

\* one iteration of the button loop up to the download event
NavigateAnnas_Button ==
    /\ pc = "na_button"
    /\ IF idx > Len(AnnasButtonSelectors)
       THEN /\ Close
            /\ Return(NULL) \/ Caught("na_catch")
            /\ idx' = 0
       ELSE \/ idx' = idx + 1 /\ Goto("na_button") /\ UNCHANGED <<sessions, browser>>   \* no button, or not visible
            \/ Caught("na_catch") /\ idx' = 0 /\ UNCHANGED <<sessions, browser>>            \* click threw
            \/ Goto("na_links") /\ UNCHANGED <<sessions, browser, idx>>               \* no download, or its stream failed
            \/ \E bytes \in Payloads :
                 /\ Close
                 /\ \/ Return(DataUri(bytes)) /\ idx' = 0
                    \/ Caught("na_links") /\ UNCHANGED idx   \* close threw: swallowed with the read errors
    /\ UNCHANGED <<reqVars, navVars, routeVars, httpFetches, adsUrl, attempts, page, target, mi>>

\* the rest of the iteration: look for a download link in the page
NavigateAnnas_Links ==
    /\ pc = "na_links"
    /\ \E doc \in AnnasPages :
         IF Truthy(AnnasDownloadLink(doc))
         THEN /\ Close
              /\ Return(IpfsToHttp(AnnasDownloadLink(doc))) \/ Caught("na_catch")
              /\ idx' = 0
         ELSE idx' = idx + 1 /\ Goto("na_button") /\ UNCHANGED <<sessions, browser>>
    /\ UNCHANGED <<reqVars, navVars, routeVars, httpFetches, adsUrl, attempts, page, target, mi>>

NavigateAnnas_Catch ==
    /\ pc = "na_catch"
    /\ Close
    /\ Return(NULL) \/ Raise("close")
    /\ UNCHANGED <<reqVars, navVars, routeVars, httpFetches, adsUrl, attempts, page, target, idx, mi>>

\***************************************************************************
\* resolveRandombook, navigateRandombookWithPlaywright
\***************************************************************************

DlAnchor == Anchor("Download", "https://randombook.org/dl/abc", TRUE)
RelativeDownloadAnchor == Anchor("Download", "/download/abc", TRUE)

RandombookPages == { <<>>, <<DlAnchor>>, <<EpubAnchor, DlAnchor>>, <<RelativeDownloadAnchor>> }

RandombookSelectors == <<"/dl/", "/download/", ".epub", ".mobi", ".pdf", "cloudflare">>

ResolveRandombook_Http ==
    /\ pc = "rr_http"
    /\ httpFetches' = httpFetches + 1
    /\ \/ CaughtCall("nr_launch", "rr_retry")
       \/ \E doc \in RandombookPages :
            IF Truthy(FirstDirectLink(doc, RandombookSelectors))
            THEN Return(FirstDirectLink(doc, RandombookSelectors))
            ELSE Call("nr_launch", "rr_first")
    /\ UNCHANGED <<reqVars, navVars, routeVars, adsUrl, attempts, browserVars, target, mi>>

ResolveRandombook_AfterPlaywright ==
    /\ pc \in {"rr_first", "rr_retry"}
    /\ IF ret.t = "val" THEN Return(ret.v)
       ELSE IF pc = "rr_first" THEN Call("nr_launch", "rr_retry")
       ELSE Return(NULL)
    /\ UNCHANGED <<reqVars, navVars, routeVars, httpFetches, adsUrl, attempts, browserVars, target, mi>>

RandombookButtonSelectors == <<"button:has-text(Download)", "a:has-text(Download)",
                               "button.download", "a.download-btn", "[data-download]">>

\* where the page is after the click on a download button
RandombookLandings(url) == { url, "https://randombook.org/files/abc.epub" }

\* el.href of the first a[href*=".epub"], [".mobi"], [".pdf"], ["download"]
RandombookPageLink(doc, url) ==
    LET k == FirstIndex(doc, LAMBDA a :
                 \E s \in {".epub", ".mobi", ".pdf", "download"} : HrefHas(a, s))
    IN IF k = 0 THEN NULL ELSE FullUrl(doc[k].href, url)

NavigateRandombook_Launch ==
    /\ pc = "nr_launch"
    /\ \/ Raise("launch") /\ UNCHANGED <<sessions, browser>>
       \/ Raise("newContext") /\ Launch
       \/ Goto("nr_goto") /\ Launch
    /\ UNCHANGED <<reqVars, navVars, routeVars, httpFetches, adsUrl, attempts, page, target, idx, mi>>

NavigateRandombook_Goto ==
    /\ pc = "nr_goto"
    /\ \/ Caught("nr_catch") /\ UNCHANGED idx
       \/ Goto("nr_button") /\ idx' = 1
    /\ UNCHANGED <<reqVars, navVars, routeVars, httpFetches, adsUrl, attempts, sessions, browser, page, target, mi>>

NavigateRandombook_Button ==
    /\ pc = "nr_button"
    /\ IF idx > Len(RandombookButtonSelectors)
       THEN /\ Close
            /\ Return(NULL) \/ Caught("nr_catch")
            /\ idx' = 0
       ELSE \/ idx' = idx + 1 /\ Goto("nr_button") /\ UNCHANGED <<sessions, browser>>   \* no such button
            \/ Caught("nr_catch") /\ idx' = 0 /\ UNCHANGED <<sessions, browser>>            \* click threw
            \/ \E currentUrl \in RandombookLandings(target), doc \in RandombookPages :
                 LET found == IF currentUrl # target /\ IsFileUrl(currentUrl) THEN currentUrl
                              ELSE RandombookPageLink(doc, currentUrl)
                 IN IF Truthy(found)
                    THEN /\ Close
                         /\ Return(found) \/ Caught("nr_catch")
                         /\ idx' = 0
                    ELSE idx' = idx + 1 /\ Goto("nr_button") /\ UNCHANGED <<sessions, browser>>
    /\ UNCHANGED <<reqVars, navVars, routeVars, httpFetches, adsUrl, attempts, page, target, mi>>

NavigateRandombook_Catch ==
    /\ pc = "nr_catch"
    /\ Close
    /\ Return(NULL) \/ Raise("close")
    /\ UNCHANGED <<reqVars, navVars, routeVars, httpFetches, adsUrl, attempts, page, target, idx, mi>>

\***************************************************************************
\* smartGetLibgenDownload
\***************************************************************************

\* cheerio :contains(): case-sensitive substring of the element's text
Contains(a, s) == Includes(a.text, s)

SmartAnnasLink == FirstHref(entryPage, LAMBDA a : HrefHas(a, "annas-archive.org/md5"))

SmartRandombookLink == FirstHref(entryPage, LAMBDA a : HrefHas(a, "randombook.org/book"))

SmartAdsPhpLink == FirstHref(entryPage, LAMBDA a : HrefHas(a, "/ads.php?md5="))

SmartMirrorLinks ==
    SelectSeq(<< FirstHref(entryPage, LAMBDA a : Contains(a, "Libgen.li")),
                 FirstHref(entryPage, LAMBDA a : Contains(a, "Libgen mirror")),
                 FirstHref(entryPage, LAMBDA a : HrefHas(a, "libgen.li")) >>, Truthy)

\* getLibgenDownloadLink: the first mirror link of the page in priority order,
\* then the older selectors; NULL where the function throws
GetLibgenDownloadLink(doc, bookUrl) ==
    LET annasArchive == FirstHref(doc, LAMBDA a : HrefHas(a, "annas-archive.org/md5"))
        randombook == FirstHref(doc, LAMBDA a : HrefHas(a, "randombook.org/book"))
        adsPhp == FirstHref(doc, LAMBDA a : HrefHas(a, "/ads.php?md5="))
        older == SelectSeq(<< FirstHref(doc, LAMBDA a : HrefHas(a, "library.lol/main")),
                              FirstHref(doc, LAMBDA a : HrefHas(a, "cloudflare")),
                              FirstHref(doc, LAMBDA a : HrefHas(a, "ipfs.io")),
                              FirstHref(doc, LAMBDA a : Contains(a, "GET")),
                              FirstHref(doc, LAMBDA a : Contains(a, "Cloudflare")),
                              FirstHref(doc, LAMBDA a : HrefHas(a, "/get.php")) >>,
                           LAMBDA l : Truthy(l) /\ StartsWith(l, "http"))
    IN IF Truthy(annasArchive) THEN annasArchive
       ELSE IF Truthy(randombook) THEN randombook
       ELSE IF Truthy(adsPhp) /\ HasOrigin(bookUrl) THEN Origin(bookUrl) \o adsPhp
       ELSE IF older # <<>> THEN older[1]
       ELSE NULL

Smart_FetchFilePage ==
    /\ pc = "sm_file"
    /\ httpFetches' = httpFetches + 1
    /\ Raise("network") \/ Goto("sm_annas")
    /\ UNCHANGED <<reqVars, navVars, routeVars, adsUrl, attempts, browserVars, target, mi>>

Smart_TryAnnas ==
    /\ pc = "sm_annas"
    /\ IF Truthy(SmartAnnasLink)
       THEN /\ target' = SmartAnnasLink
            /\ attempts' = Append(attempts, "annas")
            /\ Call("ra_http", "sm_annas_ret")
       ELSE Goto("sm_random") /\ UNCHANGED <<target, attempts>>
    /\ UNCHANGED <<reqVars, navVars, routeVars, httpFetches, adsUrl, browserVars, mi>>

Smart_TryRandombook ==
    /\ pc = "sm_random"
    /\ IF Truthy(SmartRandombookLink)
       THEN /\ target' = SmartRandombookLink
            /\ attempts' = Append(attempts, "randombook")
            /\ Call("rr_http", "sm_random_ret")
       ELSE Goto("sm_ads") /\ UNCHANGED <<target, attempts>>
    /\ UNCHANGED <<reqVars, navVars, routeVars, httpFetches, adsUrl, browserVars, mi>>

Smart_TryAdsPhp ==
    /\ pc = "sm_ads"
    /\ IF Truthy(SmartAdsPhpLink) /\ HasOrigin(downloadUrl)
       THEN /\ target' = Origin(downloadUrl) \o SmartAdsPhpLink
            /\ attempts' = Append(attempts, "adsPhp")
            /\ Call("rp_launch", "sm_ads_ret")
       ELSE Goto("sm_mirror") /\ UNCHANGED <<target, attempts>>
    /\ UNCHANGED <<reqVars, navVars, routeVars, httpFetches, adsUrl, browserVars, mi>>

Smart_TryMirrorLink ==
    /\ pc = "sm_mirror"
    /\ IF mi < Len(SmartMirrorLinks)
       THEN /\ mi' = mi + 1
            /\ target' = SmartMirrorLinks[mi + 1]
            /\ attempts' = Append(attempts, "libgenMirror")
            /\ Call("nm_launch", "sm_mirror_ret")
       ELSE /\ Throw("No resolvable download mirrors found")
            /\ mi' = 0
            /\ target' = NULL
            /\ UNCHANGED attempts
    /\ UNCHANGED <<reqVars, navVars, routeVars, httpFetches, adsUrl, browserVars>>

\* a chain that takes no candidate's result
CandidateIgnored(downloadLink) == FALSE

\* if (downloadLink)
CandidateSucceeded(downloadLink) == Truthy(downloadLink)

\* if (downloadLink) return downloadLink; otherwise on to the next candidate
Smart_CandidateResult ==
    /\ pc \in {"sm_annas_ret", "sm_random_ret", "sm_ads_ret", "sm_mirror_ret"}
    /\ attempts' = Append(attempts, IF Truthy(ret.v) THEN "found" ELSE "nothing")
    /\ IF CandidateSucceeded(ret.v)
       THEN Return(ret.v) /\ mi' = 0 /\ target' = NULL
       ELSE /\ Goto(CASE pc = "sm_annas_ret" -> "sm_random"
                      [] pc = "sm_random_ret" -> "sm_ads"
                      [] OTHER -> "sm_mirror")
            /\ UNCHANGED <<mi, target>>
    /\ page' = NoPage
    /\ idx' = 0
    /\ UNCHANGED <<reqVars, navVars, routeVars, httpFetches, adsUrl, sessions, browser>>

\***************************************************************************
\* playwrightGetDownload
\***************************************************************************

\* popups tracked in one browser context
MaxPopups == 2

\* meta-refresh redirects counted in one resolution; the code sets no limit,
\* so the count stops here while the redirects go on
MaxRefresh == 1

\* the test of the page.on('request') handler
IsDownloadRequest(u) == IsFileUrl(u) \/ Includes(u, "/download/") \/ Includes(u, "/get.php")

\* downloadUrls after a request for u
Captured(u) == IF IsDownloadRequest(u) THEN Append(downloadUrls, u) ELSE downloadUrls

\* awaits during which the context.on('page') handler can run
PopupPoints == { "gl_wait", "gl_close", "gl_goto", "gl_download" }

\* context.on('page'): popups.push(newPage)
PopupOpens ==
    /\ pc \in PopupPoints
    /\ Len(popups) < MaxPopups
    /\ popups' = Append(popups, 0)
    /\ UNCHANGED <<reqVars, routeVars, browserVars, pc, stack, ret, httpFetches, adsUrl, attempts,
                   target, mi, faults, downloadUrls, refreshes, fullUrl, popupCount, trace, download, evaded, adsHttp, patterns>>
    /\ UNCHANGED otherVars

Playwright_Launch ==
    /\ pc = "pw_launch"
    /\ \/ Raise("launch") /\ UNCHANGED <<sessions, browser>>
       \/ Raise("newContext") /\ Launch
       \/ Goto("pw_goto") /\ Launch
    /\ UNCHANGED <<reqVars, navVars, routeVars, httpFetches, adsUrl, attempts, page, target, idx, mi>>

\* page.goto(startUrl), then findDownloadLink(page, maxWaitTime, startUrl, popups)
Playwright_Goto ==
    /\ pc = "pw_goto"
    /\ \/ Raise("goto") /\ UNCHANGED <<page, target, downloadUrls>>
       \/ /\ page' = PageAt(downloadUrl, entryPage)
          /\ target' = downloadUrl
          /\ downloadUrls' = Captured(downloadUrl)
          /\ Call("fd_start", "pw_close")
    /\ UNCHANGED <<reqVars, routeVars, httpFetches, adsUrl, attempts, sessions, browser, idx, mi,
                   popups, refreshes, fullUrl, popupCount, trace, download, evaded, adsHttp, patterns>>

\* a choice that prefers the captured request URL to the link
CapturedUrlFirst(downloadLink, captured) ==
    IF captured # <<>> THEN captured[1]
    ELSE IF Truthy(downloadLink) THEN downloadLink
    ELSE NULL

\* if (downloadLink) return downloadLink; if (downloadUrls.length > 0) return downloadUrls[0]
PlaywrightResult(downloadLink, captured) ==
    IF Truthy(downloadLink) THEN downloadLink
    ELSE IF captured # <<>> THEN captured[1]
    ELSE NULL

\* browser.close(), then the link, else the first captured URL, else the
\* error; the function's locals end with it
Playwright_Close ==
    /\ pc = "pw_close"
    /\ Close
    /\ \/ Raise("close")
       \/ IF Truthy(PlaywrightResult(ret.v, downloadUrls))
          THEN Return(PlaywrightResult(ret.v, downloadUrls))
          ELSE Throw("No download link found after Playwright navigation")
    /\ page' = NoPage
    /\ target' = NULL
    /\ popups' = <<>>
    /\ downloadUrls' = <<>>
    /\ refreshes' = 0
    /\ idx' = 0
    /\ fullUrl' = NULL
    /\ popupCount' = 0
    /\ trace' = <<>>
    /\ download' = NULL
    /\ evaded' = FALSE
    /\ adsHttp' = NULL
    /\ UNCHANGED <<reqVars, routeVars, httpFetches, adsUrl, attempts, mi, patterns>>

\***************************************************************************
\* findDownloadLink
\***************************************************************************

DownloadAnchor == Anchor("Download", "https://cdn.example/download/abc", TRUE)

\* a pattern 1 that finds a link on every page
ImmediateLinkAnywhere(p) == "https://cdn.example/download/abc"

\* el.href of the first a[href*="/download/"], a[href*="/get.php"]
ImmediateLink(p) ==
    LET k == FirstIndex(p.doc, LAMBDA a : HrefHas(a, "/download/") \/ HrefHas(a, "/get.php"))
    IN IF k = 0 THEN NULL
       ELSE IF HasOrigin(p.url) \/ StartsWith(p.doc[k].href, "http") THEN FullUrl(p.doc[k].href, p.url)
       ELSE p.doc[k].href

DownloadButtons == <<"button:has-text(GET)", "button:has-text(Download)", "GET", "Download",
                     "button.btn-primary", "a.btn-download">>

\* only a:has-text("GET") and a:has-text("Download") select anchors
ButtonMatches(a, k) == k \in {3, 4} /\ HasText(a, DownloadButtons[k])

\* where the page is after a click on a download button
ClickLandings(p) == { p, PageAt("https://cdn.example/abc.epub", <<>>), PageAt(p.url, <<DownloadAnchor>>) }

\* the page after the wait and the click on a timer button
TimerLandings(p) == { p, PageAt(p.url, <<DownloadAnchor>>) }

\* content of meta[http-equiv="refresh"]
RefreshTargets == { "https://libgen.li/ads.php?md5=abc" }

\* links found in the frames of the page
FrameLinks == { NULL, "https://cdn.example/download/frame" }

FindDownloadLink_Start ==
    /\ pc = "fd_start"
    /\ IF Includes(target, "libgen.li/file.php") \/ Includes(target, "libgen.li/ads.php")
       THEN Call("hf_start", "fd_libgen")
       ELSE Goto("fd_patterns")
    /\ UNCHANGED <<reqVars, navVars, routeVars, browserVars, httpFetches, adsUrl, attempts, target, mi>>

\* if (libgenLink) return libgenLink
FindDownloadLink_AfterLibgen ==
    /\ pc = "fd_libgen"
    /\ IF Truthy(ret.v) THEN Return(ret.v) ELSE Goto("fd_patterns")
    /\ UNCHANGED <<reqVars, navVars, routeVars, browserVars, httpFetches, adsUrl, attempts, target, mi>>

\* pattern 1 (immediate link) and pattern 2 (timer button)
FindDownloadLink_Immediate ==
    /\ pc = "fd_patterns"
    /\ IF Truthy(ImmediateLink(page))
       THEN Return(ImmediateLink(page)) /\ UNCHANGED <<page, idx, downloadUrls, patterns>>
       ELSE \/ Goto("fd_buttons") /\ idx' = 1 /\ UNCHANGED <<page, downloadUrls, patterns>>  \* no timer button
            \/ CaughtReturn(NULL) /\ UNCHANGED <<page, idx, downloadUrls, patterns>>       \* textContent threw
            \/ \E landing \in TimerLandings(page) :
                 /\ page' = landing
                 /\ patterns' = patterns \cup {"timer"}
                 /\ UNCHANGED downloadUrls
                 /\ IF Truthy(ImmediateLink(landing))
                    THEN Return(ImmediateLink(landing)) /\ UNCHANGED idx
                    ELSE Goto("fd_buttons") /\ idx' = 1
    /\ UNCHANGED <<reqVars, routeVars, httpFetches, adsUrl, attempts, sessions, browser, target, mi,
                   popups, refreshes, fullUrl, popupCount, trace, download, evaded, adsHttp>>

\* pattern 3: one iteration of the download-button loop
FindDownloadLink_Button ==
    /\ pc = "fd_buttons"
    /\ LET k == NextIndex(Len(DownloadButtons), idx,
                          LAMBDA j : FirstIndex(page.doc, LAMBDA a : ButtonMatches(a, j)) > 0)
       IN IF k > Len(DownloadButtons)
          THEN Goto("fd_refresh") /\ idx' = 0 /\ UNCHANGED <<page, downloadUrls>>
          ELSE \/ CaughtReturn(NULL) /\ idx' = 0 /\ UNCHANGED <<page, downloadUrls>>   \* page.click threw
               \/ \E landing \in ClickLandings(page) :
                    /\ page' = landing
                    /\ downloadUrls' = IF landing.url = page.url THEN downloadUrls ELSE Captured(landing.url)
                    /\ IF IsFileUrl(landing.url) THEN Return(landing.url) /\ idx' = 0
                       ELSE IF Truthy(ImmediateLink(landing)) THEN Return(ImmediateLink(landing)) /\ idx' = 0
                       ELSE Goto("fd_buttons") /\ idx' = k + 1
    /\ UNCHANGED <<reqVars, routeVars, httpFetches, adsUrl, attempts, sessions, browser, target, mi,
                   popups, refreshes, fullUrl, popupCount, trace, download, evaded, adsHttp, patterns>>

\* pattern 4 (meta refresh: navigate and recurse without popups) and pattern 5 (frames)
FindDownloadLink_Refresh ==
    /\ pc = "fd_refresh"
    /\ \/ /\ patterns' = patterns \cup {"refresh"}
          /\ \E redirectUrl \in RefreshTargets :
               \/ CaughtReturn(NULL) /\ UNCHANGED <<page, target, refreshes, downloadUrls>>  \* goto threw
               \/ \E doc \in AdsPages :
                    /\ page' = PageAt(redirectUrl, doc)
                    /\ target' = redirectUrl
                    /\ refreshes' = IF refreshes < MaxRefresh THEN refreshes + 1 ELSE refreshes
                    /\ downloadUrls' = Captured(redirectUrl)
                    /\ Goto("fd_start")
       \/ \E frameLink \in FrameLinks :
            /\ Return(frameLink)
            /\ patterns' = IF Truthy(frameLink) THEN patterns \cup {"frame"} ELSE patterns
            /\ UNCHANGED <<page, target, refreshes, downloadUrls>>
    /\ UNCHANGED <<reqVars, routeVars, httpFetches, adsUrl, attempts, sessions, browser, idx, mi,
                   popups, fullUrl, popupCount, trace, download, evaded, adsHttp>>

\***************************************************************************
\* handleLibgenFlow
\***************************************************************************

\* "Libgen" or "mirror" text on a link to ads.php
LibgenMirrorLink(a) ==
    /\ Truthy(a.text) /\ Truthy(a.href)
    /\ Includes(ToLowerCase(a.text), "libgen") \/ Includes(ToLowerCase(a.text), "mirror")
    /\ Includes(a.href, "/ads.php")

AdNetworkPage == PageAt("https://ads.example/landing", <<>>)

\* where the page is after the click on a mirror link
MirrorLandings(fullHref, p) ==
    { PageAt(fullHref, doc) : doc \in AdsPages } \cup { p, AdNetworkPage }

HandleLibgenFlow_Start ==
    /\ pc = "hf_start"
    /\ IF Includes(target, "/ads.php")
       THEN Goto("gl_start") /\ UNCHANGED <<page, idx>>
       ELSE \/ CaughtReturn(NULL) /\ UNCHANGED <<page, idx>>                  \* page.$$ threw
            \/ Goto("hf_link") /\ idx' = 1 /\ page' = [page EXCEPT !.attached = TRUE]
    /\ UNCHANGED <<reqVars, navVars, routeVars, httpFetches, adsUrl, attempts, sessions, browser, target, mi>>

\* one link of allLinks up to the direct HTTP fetch of its ads.php page
\* the variant that goes to the click path although the HTTP response has a GET link
HandleLibgenFlow_LinkClicksAnyway ==
    /\ pc = "hf_link"
    /\ LET k == IF page.attached
                 THEN NextIndex(Len(page.doc), idx, LAMBDA j : LibgenMirrorLink(page.doc[j]))
                 ELSE Len(page.doc) + 1
       IN IF k > Len(page.doc)
          THEN Return(NULL) /\ idx' = 0 /\ UNCHANGED <<httpFetches, adsHttp>>
          ELSE /\ httpFetches' = httpFetches + 1
               /\ \/ Caught("hf_evade") /\ idx' = k /\ adsHttp' = "failed"
                  \/ \E adsPage \in AdsPages :
                       LET getLinks == HrefsWhere(adsPage, HttpGetLink) IN
                       /\ Goto("hf_evade") /\ idx' = k
                       /\ adsHttp' = IF getLinks # <<>> THEN "GET link" ELSE "no GET link"
    /\ UNCHANGED <<reqVars, routeVars, adsUrl, attempts, sessions, browser, page, target, mi,
                   popups, downloadUrls, refreshes, fullUrl, popupCount, trace, download, evaded, patterns>>

HandleLibgenFlow_Link ==
    /\ pc = "hf_link"
    /\ LET k == IF page.attached
                 THEN NextIndex(Len(page.doc), idx, LAMBDA j : LibgenMirrorLink(page.doc[j]))
                 ELSE Len(page.doc) + 1
       IN IF k > Len(page.doc)
          THEN Return(NULL) /\ idx' = 0 /\ UNCHANGED <<httpFetches, adsHttp>>
          ELSE /\ httpFetches' = httpFetches + 1
               /\ \/ Caught("hf_evade") /\ idx' = k /\ adsHttp' = "failed"
                  \/ \E adsPage \in AdsPages :
                       LET getLinks == HrefsWhere(adsPage, HttpGetLink) IN
                       IF getLinks # <<>>
                       THEN Return(LibgenLiAbsolute(getLinks[1])) /\ idx' = 0 /\ adsHttp' = "GET link"
                       ELSE Goto("hf_evade") /\ idx' = k /\ adsHttp' = "no GET link"
    /\ UNCHANGED <<reqVars, routeVars, adsUrl, attempts, sessions, browser, page, target, mi,
                   popups, downloadUrls, refreshes, fullUrl, popupCount, trace, download, evaded, patterns>>

\* mouse moves, wheel and dwell, then the approach to the link's bounding box
HandleLibgenFlow_Evade ==
    /\ pc = "hf_evade"
    /\ \/ Caught("hf_link") /\ idx' = idx + 1 /\ evaded' = FALSE /\ adsHttp' = NULL    \* page.mouse threw: next link
       \/ Caught("hf_click") /\ UNCHANGED <<idx, adsHttp>> /\ evaded' = TRUE      \* boundingBox or scroll threw: swallowed
       \/ Goto("hf_click") /\ UNCHANGED <<idx, adsHttp>> /\ evaded' = TRUE
    /\ UNCHANGED <<reqVars, routeVars, httpFetches, adsUrl, attempts, sessions, browser,
                   page, target, mi, popups, downloadUrls, refreshes, fullUrl, popupCount, trace,
                   download, patterns>>

\* link.click() and where it led
HandleLibgenFlow_Click ==
    /\ pc = "hf_click"
    /\ LET href == page.doc[idx].href
           fullHref == IF StartsWith(href, "http") THEN href ELSE "https://libgen.li" \o href
       IN \E landing \in MirrorLandings(fullHref, page) :
            IF Includes(landing.url, "/ads.php") /\ Includes(landing.url, "libgen.li")
            THEN page' = landing /\ Goto("gl_start") /\ idx' = 0
            ELSE IF ~Includes(landing.url, "libgen.li")
            THEN \/ page' = landing /\ Caught("hf_link") /\ idx' = idx + 1       \* goto back threw
                 \/ page' = PageAt(target, page.doc) /\ Goto("hf_link") /\ idx' = idx + 1
            ELSE page' = landing /\ Goto("hf_link") /\ idx' = idx + 1
    /\ evaded' = FALSE
    /\ adsHttp' = NULL
    /\ UNCHANGED <<reqVars, routeVars, httpFetches, adsUrl, attempts, sessions, browser, target, mi,
                   popups, downloadUrls, refreshes, fullUrl, popupCount, trace, download, patterns>>

\***************************************************************************
\* extractLibgenGetLink
\***************************************************************************

\* the link the loop settles on: GET in its text, get.php in its href
GetLinkCandidate(a, baseUrl) ==
    /\ Truthy(a.text) /\ Truthy(a.href)
    /\ ToUpperCase(Trim(a.text)) = "GET" \/ Includes(ToUpperCase(a.text), "GET")
    /\ Includes(a.href, "/get.php")
    /\ HasOrigin(baseUrl)

\* download.url() of the download the navigation started
DownloadUrlsOf(u) == { u, "https://cdn.example/abc.epub" }

ExtractGetLink_Scan ==
    /\ pc = "gl_start"
    /\ \/ CaughtReturn(NULL) /\ UNCHANGED idx                                 \* page.$$ threw: no links
       \/ IF page.doc = <<>> THEN Return(NULL) /\ UNCHANGED idx
          ELSE Goto("gl_link") /\ idx' = 1
    /\ UNCHANGED <<reqVars, navVars, routeVars, httpFetches, adsUrl, attempts, sessions, browser,
                   page, target, mi>>

\* the loop over allLinks up to the first click; popups is undefined in a
\* call that came through the meta-refresh recursion
ExtractGetLink_FirstClick ==
    /\ pc = "gl_link"
    /\ LET k == IF refreshes > 0 THEN Len(page.doc) + 1
                 ELSE NextIndex(Len(page.doc), idx, LAMBDA j : GetLinkCandidate(page.doc[j], page.url))
       IN IF k > Len(page.doc)
          THEN Return(NULL) /\ idx' = 0 /\ UNCHANGED <<fullUrl, popupCount, trace, evaded>>
          ELSE /\ fullUrl' = FullUrl(page.doc[k].href, page.url)
               /\ evaded' = FALSE
               /\ popupCount' = Len(popups)
               /\ trace' = Append(trace, "click")
               /\ Goto("gl_wait")
               /\ idx' = 0
    /\ UNCHANGED <<reqVars, routeVars, httpFetches, adsUrl, attempts, sessions, browser, page, target, mi,
                   popups, downloadUrls, refreshes, download, adsHttp, patterns>>

\* if (popups.length > popupCount)
ExtractGetLink_PopupCheck ==
    /\ pc = "gl_wait"
    /\ IF Len(popups) > popupCount
       THEN Goto("gl_close") /\ idx' = 1
       ELSE Goto("gl_goto") /\ UNCHANGED idx
    /\ UNCHANGED <<reqVars, navVars, routeVars, httpFetches, adsUrl, attempts, sessions, browser,
                   page, target, mi>>

\* a loop that stops after the first popup
FirstPopupVisited(k) == k > 1

\* for (const popup of popups): the loop ends once every tracked popup was visited
PopupsVisited(k) == k > Len(popups)

\* a close loop that takes each popup it closes out of the list
ExtractGetLink_ClosePopupSplices ==
    /\ pc = "gl_close"
    /\ IF popups = <<>>
       THEN Goto("gl_goto") /\ idx' = 0 /\ UNCHANGED <<popups, trace>>
       ELSE /\ popups' = Tail(popups)
            /\ trace' = Append(trace, "close")
            /\ idx' = idx
            /\ Goto("gl_close")
    /\ UNCHANGED <<reqVars, routeVars, httpFetches, adsUrl, attempts, sessions, browser, page, target, mi,
                   downloadUrls, refreshes, fullUrl, popupCount, download, evaded, adsHttp, patterns>>

\* for (const popup of popups) popup.close(), errors swallowed
ExtractGetLink_ClosePopup ==
    /\ pc = "gl_close"
    /\ IF PopupsVisited(idx)
       THEN Goto("gl_goto") /\ idx' = 0 /\ UNCHANGED <<popups, trace>>
       ELSE /\ popups' = [popups EXCEPT ![idx] = @ + 1]
            /\ trace' = Append(trace, "close")
            /\ idx' = idx + 1
            /\ Goto("gl_close") \/ Caught("gl_close")
    /\ UNCHANGED <<reqVars, routeVars, httpFetches, adsUrl, attempts, sessions, browser, page, target, mi,
                   downloadUrls, refreshes, fullUrl, popupCount, download, evaded, adsHttp, patterns>>

\* page.url() after page.goto(fullUrl) resolved
GetLandings(u) == { u, "about:blank", "https://ads.example/landing" }

\* the download listener is registered, then page.goto(fullUrl), errors swallowed
ExtractGetLink_SecondAttempt ==
    /\ pc = "gl_goto"
    /\ trace' = Append(trace, "goto")
    /\ \/ /\ downloadUrls' = Captured(fullUrl)                                \* the navigation completed
          /\ \E finalUrl \in GetLandings(fullUrl) : page' = PageAt(finalUrl, <<>>)
          /\ UNCHANGED download
          /\ Goto("gl_download")
       \/ /\ downloadUrls' = Captured(fullUrl)                                \* interrupted by the download
          /\ \E u \in DownloadUrlsOf(fullUrl) : download' = u
          /\ UNCHANGED page
          /\ Goto("gl_download")
       \/ /\ UNCHANGED <<downloadUrls, download, page>>                       \* goto threw otherwise
          /\ Caught("gl_download")
    /\ UNCHANGED <<reqVars, routeVars, httpFetches, adsUrl, attempts, sessions, browser, target,
                   idx, mi, popups, refreshes, fullUrl, popupCount, evaded, adsHttp, patterns>>

\* a fallback that returns wherever the page is
LandedUrl(p, u) == p.url

\* if (finalUrl !== fullUrl && finalUrl !== 'about:blank') return finalUrl; return fullUrl
FinalUrl(p, u) == IF p.url # u /\ p.url # "about:blank" THEN p.url ELSE u

\* await downloadPromise: the URL of the download, else after 30 s the final URL
ExtractGetLink_AwaitDownload ==
    /\ pc = "gl_download"
    /\ fullUrl' = NULL
    /\ popupCount' = 0
    /\ IF Truthy(download)
       THEN Return(download) /\ UNCHANGED download
       ELSE \/ \E u \in DownloadUrlsOf(fullUrl) : download' = u /\ Return(u)
            \/ /\ UNCHANGED download
               /\ Return(FinalUrl(page, fullUrl))
    /\ UNCHANGED <<reqVars, routeVars, httpFetches, adsUrl, attempts, sessions, browser, page, target,
                   idx, mi, popups, downloadUrls, refreshes, trace, evaded, adsHttp, patterns>>

\***************************************************************************
\* POST /api/download
\***************************************************************************

\* a trusted-source list without gutenberg
TrustedSourcesWithoutGutenberg == {"archive", "openlibrary", "standardebooks"}

TrustedSources == {"archive", "openlibrary", "gutenberg", "standardebooks"}

\* a 400 response that leaves the entry URL out
ManualDownloadResponseWithoutUrl(url) == Response(400, "manual", NULL, NULL)

\* the 400 response that tells the user to download by hand
ManualDownloadResponse(url) == Response(400, "manual", url, NULL)

\* the 500 response of the handler's catch block
DownloadErrorResponse(url) ==
    Response(500, "error", NULL,
             IF Truthy(url) /\ StartsWith(url, "http") /\ ~StartsWith(url, "data:") THEN url ELSE NULL)

\* body parsing, validation and the start of LibGen resolution
Download_Start ==
    /\ pc = "start" /\ handler = "download"
    /\ IF ~Truthy(downloadUrl)
       THEN /\ Respond(Response(400, "url_required", NULL, NULL))
            /\ UNCHANGED <<actualDownloadUrl, attempts>>
       ELSE /\ actualDownloadUrl' = downloadUrl
            /\ response' = response
            /\ IF source = "libgen"
               THEN Call("sv_file", "dl_serverless") /\ attempts' = Append(attempts, "serverless")
               ELSE Goto("dl_deliver") /\ UNCHANGED attempts
    /\ UNCHANGED <<reqVars, navVars, httpFetches, mailsSent, adsUrl, browserVars, target, mi>>

\* a handler that never takes the HTTP-only resolver's result
ServerlessDiscarded(r) == FALSE

\* the resolver returned, and if (!actualDownloadUrl || actualDownloadUrl === downloadUrl) did not throw
ServerlessSucceeded(r) == r.t = "val" /\ Truthy(r.v) /\ r.v # downloadUrl

\* result of the HTTP-only resolver; on failure the Playwright fallback
Download_AfterServerless ==
    /\ pc = "dl_serverless"
    /\ IF ServerlessSucceeded(ret)
       THEN /\ actualDownloadUrl' = ret.v
            /\ Goto("dl_deliver")
            /\ UNCHANGED attempts
       ELSE /\ actualDownloadUrl' = (IF ret.t = "val" THEN ret.v ELSE actualDownloadUrl)
            /\ attempts' = Append(attempts, "playwright")
            /\ Call("pw_launch", "dl_playwright")
    /\ UNCHANGED <<reqVars, navVars, response, httpFetches, mailsSent, adsUrl, browserVars, target, mi>>

Download_AfterPlaywright ==
    /\ pc = "dl_playwright"
    /\ IF ret.t = "val"
       THEN actualDownloadUrl' = ret.v /\ Goto("dl_deliver") /\ UNCHANGED response
       ELSE Respond(ManualDownloadResponse(downloadUrl)) /\ UNCHANGED actualDownloadUrl
    /\ UNCHANGED <<reqVars, navVars, httpFetches, mailsSent, adsUrl, browserVars, attempts, target, mi>>

\* trusted redirect, decoded data: URI, or proxied fetch of the file
Download_Deliver ==
    /\ pc = "dl_deliver"
    /\ IF source \in TrustedSources /\ StartsWith(actualDownloadUrl, "http")
       THEN /\ Respond(Response(200, "redirect", NULL, actualDownloadUrl))
            /\ UNCHANGED httpFetches
       ELSE IF StartsWith(actualDownloadUrl, "data:")
       THEN /\ Respond(Response(200, "file", NULL, NULL))
            /\ UNCHANGED httpFetches
       ELSE /\ httpFetches' = httpFetches + 1
            /\ \/ Respond(Response(200, "file", NULL, NULL))
               \/ CaughtRespond(DownloadErrorResponse(actualDownloadUrl))
    /\ UNCHANGED <<reqVars, navVars, actualDownloadUrl, mailsSent, adsUrl, browserVars, attempts, target, mi>>

\***************************************************************************
\* POST /api/send-to-kindle
\***************************************************************************

ValidKindleEmail(e) ==
    Includes(e, "@") /\ (EndsWith(e, "@kindle.com") \/ EndsWith(e, "@free.kindle.com"))

\* the 500 response of the handler's catch block: the error message only
KindleErrorResponse == Response(500, "error", NULL, NULL)

Kindle_Start ==
    /\ pc = "start" /\ handler = "kindle"
    /\ IF ~Truthy(bookTitle) \/ ~Truthy(downloadUrl) \/ ~Truthy(kindleEmail)
       THEN /\ Respond(Response(400, "missing_fields", NULL, NULL))
            /\ UNCHANGED <<actualDownloadUrl, attempts>>
       ELSE IF kindleEmail = NotAString                   \* kindleEmail.includes is not a function: the handler's catch
       THEN /\ Respond(KindleErrorResponse)
            /\ UNCHANGED <<actualDownloadUrl, attempts>>
       ELSE IF ~ValidKindleEmail(kindleEmail)
       THEN /\ Respond(Response(400, "invalid_email", NULL, NULL))
            /\ UNCHANGED <<actualDownloadUrl, attempts>>
       ELSE /\ actualDownloadUrl' = downloadUrl
            /\ response' = response
            /\ IF source = "libgen"
               THEN Call("sm_file", "kd_smart") /\ attempts' = Append(attempts, "smart")
               ELSE Goto("kd_deliver") /\ UNCHANGED attempts
    /\ UNCHANGED <<reqVars, navVars, httpFetches, mailsSent, adsUrl, browserVars, target, mi>>

\* smart scraping returned or threw; Playwright is tried only when it threw
Kindle_AfterSmart ==
    /\ pc = "kd_smart"
    /\ IF ret.t = "err"
       THEN /\ attempts' = Append(attempts, "playwright")
            /\ Call("pw_launch", "kd_playwright")
            /\ UNCHANGED <<actualDownloadUrl, response>>
       ELSE /\ actualDownloadUrl' = ret.v
            /\ UNCHANGED attempts
            /\ IF ~Truthy(ret.v) \/ ret.v = downloadUrl
               THEN Respond(ManualDownloadResponse(downloadUrl))
               ELSE Goto("kd_deliver") /\ UNCHANGED response
    /\ UNCHANGED <<reqVars, navVars, httpFetches, mailsSent, adsUrl, browserVars, target, mi>>

Kindle_AfterPlaywright ==
    /\ pc = "kd_playwright"
    /\ IF ret.t = "err"
       THEN Respond(ManualDownloadResponse(downloadUrl)) /\ UNCHANGED actualDownloadUrl
       ELSE /\ actualDownloadUrl' = ret.v
            /\ IF ~Truthy(ret.v) \/ ret.v = downloadUrl
               THEN Respond(ManualDownloadResponse(downloadUrl))
               ELSE Goto("kd_deliver") /\ UNCHANGED response
    /\ UNCHANGED <<reqVars, navVars, httpFetches, mailsSent, adsUrl, browserVars, attempts, target, mi>>

\* download of the file, then the mail with the attachment
Kindle_Deliver ==
    /\ pc = "kd_deliver"
    /\ httpFetches' = httpFetches + 1
    /\ \/ CaughtRespond(KindleErrorResponse) /\ UNCHANGED mailsSent         \* axios.get or sendMail threw
       \/ Respond(Response(200, "sent", NULL, NULL)) /\ mailsSent' = mailsSent + 1
    /\ UNCHANGED <<reqVars, navVars, actualDownloadUrl, adsUrl, browserVars, attempts, target, mi>>

\***************************************************************************
\* POST /api/upload-to-kindle
\***************************************************************************

ValidExtensions == { ".epub", ".mobi", ".pdf", ".azw3" }

\* fileName.lastIndexOf('.'), counted from 1; 0 when there is no dot
LastDot(name) ==
    LET dots == { i \in 1..Len(name) : SubSeq(name, i, i) = "." }
    IN IF dots = {} THEN 0 ELSE CHOOSE i \in dots : \A j \in dots : j <= i

\* fileName.toLowerCase().substring(fileName.lastIndexOf('.')): substring(-1) is the whole name
FileExtension(name) ==
    LET lower == ToLowerCase(name)
    IN IF LastDot(name) = 0 THEN lower ELSE SubSeq(lower, LastDot(name), Len(lower))

\* the validations of the form data
Upload_Start ==
    /\ pc = "start" /\ handler = "upload"
    /\ IF file = NoFile
       THEN Respond(Response(400, "missing_file", NULL, NULL))
       ELSE IF ~Truthy(kindleEmail)
       THEN Respond(Response(400, "missing_email", NULL, NULL))
       ELSE IF kindleEmail = NotAString                   \* kindleEmail.includes is not a function: the handler's catch
       THEN Respond(KindleErrorResponse)
       ELSE IF ~ValidKindleEmail(kindleEmail)
       THEN Respond(Response(400, "invalid_email", NULL, NULL))
       ELSE IF FileExtension(file.name) \notin ValidExtensions
       THEN Respond(Response(400, "invalid_type", NULL, NULL))
       ELSE IF file.size > MaxSize
       THEN Respond(Response(400, "too_large", NULL, NULL))
       ELSE Goto("up_send") /\ UNCHANGED response
    /\ UNCHANGED <<reqVars, navVars, actualDownloadUrl, httpFetches, mailsSent, adsUrl, browserVars,
                   attempts, target, mi>>

\* file.arrayBuffer(), then the mail with the attachment
Upload_Send ==
    /\ pc = "up_send"
    /\ \/ CaughtRespond(KindleErrorResponse) /\ UNCHANGED mailsSent         \* arrayBuffer or sendMail threw
       \/ Respond(Response(200, "sent", NULL, NULL)) /\ mailsSent' = mailsSent + 1
    /\ UNCHANGED <<reqVars, navVars, actualDownloadUrl, httpFetches, adsUrl, browserVars, attempts, target, mi>>

Next ==
    \/ Upload_Start
    \/ Upload_Send
    \/ Download_Start
    \/ Download_AfterServerless
    \/ Download_AfterPlaywright
    \/ Download_Deliver
    \/ Kindle_Start
    \/ Kindle_AfterSmart
    \/ Kindle_AfterPlaywright
    \/ Kindle_Deliver
    \/ Serverless_FetchFilePhp
    \/ Serverless_FetchAdsPhp
    \/ Smart_FetchFilePage
    \/ Smart_TryAnnas
    \/ Smart_TryRandombook
    \/ Smart_TryAdsPhp
    \/ Smart_TryMirrorLink
    \/ Smart_CandidateResult
    \/ ResolveAnnas_Http
    \/ ResolveAnnas_AfterPlaywright
    \/ NavigateAnnas_Launch
    \/ NavigateAnnas_Goto
    \/ NavigateAnnas_Button
    \/ NavigateAnnas_Links
    \/ NavigateAnnas_Catch
    \/ ResolveRandombook_Http
    \/ ResolveRandombook_AfterPlaywright
    \/ NavigateRandombook_Launch
    \/ NavigateRandombook_Goto
    \/ NavigateRandombook_Button
    \/ NavigateRandombook_Catch
    \/ ResolveAdsPhp_Launch
    \/ ResolveAdsPhp_Extract
    \/ ResolveAdsPhp_Catch
    \/ NavigateMirror_Launch
    \/ NavigateMirror_Goto
    \/ NavigateMirror_Click
    \/ NavigateMirror_Catch
    \/ Playwright_Launch
    \/ Playwright_Goto
    \/ Playwright_Close
    \/ PopupOpens
    \/ FindDownloadLink_Start
    \/ FindDownloadLink_AfterLibgen
    \/ FindDownloadLink_Immediate
    \/ FindDownloadLink_Button
    \/ FindDownloadLink_Refresh
    \/ HandleLibgenFlow_Start
    \/ HandleLibgenFlow_Link
    \/ HandleLibgenFlow_Evade
    \/ HandleLibgenFlow_Click
    \/ ExtractGetLink_Scan
    \/ ExtractGetLink_FirstClick
    \/ ExtractGetLink_PopupCheck
    \/ ExtractGetLink_ClosePopup
    \/ ExtractGetLink_SecondAttempt
    \/ ExtractGetLink_AwaitDownload

Spec == Init /\ [][Next]_vars

\* every await of the request task settles: the task is never left waiting
FairSpec == Spec /\ WF_vars(Next)

\***************************************************************************
\* cascadingMetadataSearch (src/lib/metadata-search.ts)
\***************************************************************************

\* no request is being handled
NoRequest ==
    /\ handler = "download" /\ source = "" /\ downloadUrl = "" /\ bookTitle = "" /\ kindleEmail = ""
    /\ file = NoFile /\ entryPage = <<>> /\ pc = "idle" /\ stack = <<>> /\ ret = NoRet
    /\ actualDownloadUrl = "" /\ response = NoResponse /\ httpFetches = 0 /\ mailsSent = 0
    /\ adsUrl = NULL /\ attempts = <<>> /\ sessions = EmptyBag /\ browser = NoBrowser
    /\ page = NoPage /\ target = NULL /\ idx = 0 /\ mi = 0 /\ faults = 0
    /\ popups = <<>> /\ downloadUrls = <<>> /\ refreshes = 0 /\ fullUrl = NULL /\ popupCount = 0
    /\ trace = <<>> /\ download = NULL /\ evaded = FALSE /\ adsHttp = NULL /\ patterns = {}

\* books a result of searchFn can have at most
MaxResults == 2

\* the metadata of a book: a field is a string, empty, or missing
Books == [isbn : {NULL, "9780441013593"}, md5 : {NULL, "abc"},
          title : {"", "Dune"}, author : {NULL, "", "Herbert"}]

Query(query, type, priority) == [query |-> query, type |-> type, priority |-> priority]

\* queries.push(...) if the condition holds
PushIf(queries, cond, q) == IF cond THEN Append(queries, q) ELSE queries

\* queries.sort((a, b) => a.priority - b.priority): a stable sort, by insertion
RECURSIVE SortByPriority(_)
SortByPriority(queries) ==
    IF queries = <<>> THEN <<>>
    ELSE LET sorted == SortByPriority(SubSeq(queries, 1, Len(queries) - 1))
             q == queries[Len(queries)]
             k == Cardinality({ i \in DOMAIN sorted : sorted[i].priority <= q.priority })
         IN SubSeq(sorted, 1, k) \o <<q>> \o SubSeq(sorted, k + 1, Len(sorted))

\* the variant that ranks the title query above the title and author query
BuildQueriesTitleFirst(b) ==
    LET q1 == PushIf(<<>>, Truthy(b.isbn), Query(b.isbn, "isbn", 1))
        q2 == PushIf(q1, Truthy(b.md5), Query(b.md5, "md5", 2))
        q3 == PushIf(q2, Truthy(b.title) /\ Truthy(b.author),
                     Query(b.title \o " " \o b.author, "title-author", 4))
        q4 == PushIf(q3, Truthy(b.title), Query(b.title, "title", 3))
        q5 == PushIf(q4, Truthy(b.author), Query(b.author, "author", 5))
    IN SortByPriority(q5)

BuildMetadataQueries(b) ==
    LET q1 == PushIf(<<>>, Truthy(b.isbn), Query(b.isbn, "isbn", 1))
        q2 == PushIf(q1, Truthy(b.md5), Query(b.md5, "md5", 2))
        q3 == PushIf(q2, Truthy(b.title) /\ Truthy(b.author),
                     Query(b.title \o " " \o b.author, "title-author", 3))
        q4 == PushIf(q3, Truthy(b.title), Query(b.title, "title", 4))
        q5 == PushIf(q4, Truthy(b.author), Query(b.author, "author", 5))
    IN SortByPriority(q5)

\* const { minResults = 1 } = options
MinResults == IF minResults = Undefined THEN 1 ELSE minResults

\* the searchFn call did not return
Threw == -1

Issued(q, found) == [query |-> q.query, type |-> q.type, found |-> found]

CascadeInit ==
    /\ NoRequest
    /\ NoCache
    /\ NoCalls
    /\ NoLookup
    /\ book \in Books
    /\ minResults \in {Undefined} \cup 0..MaxResults
    /\ qi = 1
    /\ issued = <<>>
    /\ usedQuery = NoQuery
    /\ books = Running

\* the variant without the try around the searchFn call: its error leaves the function
Cascade_SearchUnguarded ==
    /\ usedQuery = NoQuery
    /\ qi \in 1..Len(BuildMetadataQueries(book))
    /\ LET q == BuildMetadataQueries(book)[qi]
       IN \/ /\ issued' = Append(issued, Issued(q, Threw))
             /\ usedQuery' = [query |-> q.query, queryType |-> q.type,
                               success |-> FALSE, booksFound |-> Threw]
             /\ books' = Threw
             /\ UNCHANGED qi
          \/ \E found \in 0..MaxResults :
               /\ issued' = Append(issued, Issued(q, found))
               /\ IF found >= MinResults
                  THEN /\ usedQuery' = [query |-> q.query, queryType |-> q.type,
                                        success |-> TRUE, booksFound |-> found]
                       /\ books' = found
                       /\ UNCHANGED qi
                  ELSE qi' = qi + 1 /\ UNCHANGED <<usedQuery, books>>
    /\ UNCHANGED <<requestVars, cacheVars, pairVars, searchRouteVars, book, minResults>>

\* one iteration of the loop over queries
Cascade_Search ==
    /\ usedQuery = NoQuery
    /\ qi \in 1..Len(BuildMetadataQueries(book))
    /\ LET q == BuildMetadataQueries(book)[qi]
       IN \/ /\ issued' = Append(issued, Issued(q, Threw))                  \* searchFn threw: next query
             /\ qi' = qi + 1
             /\ UNCHANGED <<usedQuery, books>>
          \/ \E found \in 0..MaxResults :
               /\ issued' = Append(issued, Issued(q, found))
               /\ IF found >= MinResults
                  THEN /\ usedQuery' = [query |-> q.query, queryType |-> q.type,
                                        success |-> TRUE, booksFound |-> found]
                       /\ books' = found
                       /\ UNCHANGED qi
                  ELSE qi' = qi + 1 /\ UNCHANGED <<usedQuery, books>>
    /\ UNCHANGED <<requestVars, cacheVars, pairVars, searchRouteVars, book, minResults>>

\* all queries exhausted
Cascade_Exhausted ==
    /\ usedQuery = NoQuery
    /\ qi > Len(BuildMetadataQueries(book))
    /\ usedQuery' = [query |-> book.title, queryType |-> "title", success |-> FALSE, booksFound |-> 0]
    /\ books' = 0
    /\ UNCHANGED <<requestVars, cacheVars, pairVars, searchRouteVars, book, minResults, qi, issued>>

CascadeNext ==
    \/ Cascade_Search
    \/ Cascade_Exhausted

CascadeSpec == CascadeInit /\ [][CascadeNext]_vars

\***************************************************************************
\* The search cache (src/unnamed/part_001): getCache, setCache
\***************************************************************************

\* the instants at which the clock is read: the store, the last millisecond
\* of the 24 hours, their end
Instants == { 0, 1, CACHE_DURATION - 1, CACHE_DURATION, CACHE_DURATION + 1 }

\* time passes
Cache_Tick ==
    /\ \E t \in Instants : t > now /\ now' = t
    /\ got' = NoGet
    /\ UNCHANGED <<requestVars, searchVars, pairVars, searchRouteVars, files, writer, stored, reading>>

\* setCache(source, query, data, page)
Cache_Set ==
    /\ \E k \in SearchKeys, data \in Results :
         \/ /\ files' = [files EXCEPT ![GetCacheKey(k)] =
                            [data |-> data, timestamp |-> now, expiresAt |-> now + CACHE_DURATION]]
            /\ writer' = [writer EXCEPT ![GetCacheKey(k)] = k]
            /\ stored' = [stored EXCEPT ![k] = [data |-> data, at |-> now]]
         \/ UNCHANGED <<files, writer, stored>>                        \* mkdir or writeFile threw: logged
    /\ got' = NoGet
    /\ UNCHANGED <<requestVars, searchVars, pairVars, searchRouteVars, now, reading>>

\* getCache(source, query, page) up to its return or to the end of readFile
Cache_Get ==
    /\ reading = NoCall
    /\ \E k \in SearchKeys :
         LET entry == files[GetCacheKey(k)]
         IN \/ got' = [key |-> k, at |-> now, data |-> NULL] /\ UNCHANGED reading      \* readFile threw
            \/ /\ entry # NoEntry
               /\ IF now < entry.expiresAt
                  THEN got' = [key |-> k, at |-> now, data |-> entry.data] /\ UNCHANGED reading
                  ELSE reading' = k /\ got' = NoGet
    /\ UNCHANGED <<requestVars, searchVars, pairVars, searchRouteVars, files, now, writer, stored>>

\* getCache: await fs.unlink(cachePath).catch(() => {}); return null
Cache_Unlink ==
    /\ reading # NoCall
    /\ \/ /\ files' = [files EXCEPT ![GetCacheKey(reading)] = NoEntry]
          /\ writer' = [writer EXCEPT ![GetCacheKey(reading)] = NoCall]
       \/ UNCHANGED <<files, writer>>                          \* unlink threw: swallowed
    /\ got' = [key |-> reading, at |-> now, data |-> NULL]
    /\ reading' = NoCall
    /\ UNCHANGED <<requestVars, searchVars, pairVars, searchRouteVars, now, stored>>

CacheInit == NoRequest /\ NoSearch /\ NoCache /\ NoCalls /\ NoLookup

CacheNext ==
    \/ Cache_Tick
    \/ Cache_Set
    \/ Cache_Get
    \/ Cache_Unlink

CacheSpec == CacheInit /\ [][CacheNext]_vars

\***************************************************************************
\* GET /api/search/libgen, /api/search/gutenberg, /api/search/openlibrary
\* and searchLibgen
\***************************************************************************

LIBGEN_MIRRORS == << "https://libgen.li", "https://libgen.rs", "https://libgen.is" >>

\* the routes (the openlibrary handler is the gutenberg handler with another
\* search function) and the q parameter, NULL when it is missing
SearchRequests == [source : {"libgen", "gutenberg"}, query : {NULL, "dune"}, page : {1}]

RouteKeys == { k \in SearchRequests : Truthy(k.query) }

RoutePaths == { GetCacheKey(k) : k \in RouteKeys }

\* the book lists a search can give
BookLists == { "no books", "result A" }

TriedMirror(m, ok) == [mirror |-> m, ok |-> ok]

Answer(status, cached, data, message) ==
    [status |-> status, cached |-> cached, data |-> data, message |-> message]

RouteInit ==
    /\ NoRequest /\ NoSearch /\ NoCalls /\ NoLookup
    /\ files = [p \in RoutePaths |-> NoEntry]
    /\ now = 0
    /\ writer = [p \in RoutePaths |-> NoCall]
    /\ stored = [k \in RouteKeys |-> NoStore]
    /\ reading = NoCall
    /\ got = NoGet

\* a request arrives: the q parameter is read and checked
Route_Start ==
    /\ rpc = "idle"
    /\ \E r \in SearchRequests :
         /\ asked' = r
         /\ IF ~Truthy(r.query)
            THEN rpc' = "done" /\ answer' = Answer(400, FALSE, NULL, "Query parameter \"q\" is required")
            ELSE rpc' = "cache" /\ answer' = NoAnswer
    /\ tried' = <<>> /\ searched' = NULL /\ searches' = 0 /\ writes' = 0
    /\ before' = files
    /\ UNCHANGED <<requestVars, searchVars, pairVars, cacheVars>>

\* getCache(source, query, page) up to its return or to the end of readFile
Route_GetCache ==
    /\ rpc = "cache"
    /\ LET entry == files[GetCacheKey(asked)]
       IN \/ rpc' = "search" /\ UNCHANGED answer                       \* readFile threw: null
          \/ /\ entry # NoEntry
             /\ IF now < entry.expiresAt
                THEN rpc' = "done" /\ answer' = Answer(200, TRUE, entry.data, NULL)
                ELSE rpc' = "unlink" /\ UNCHANGED answer
    /\ UNCHANGED <<requestVars, searchVars, pairVars, cacheVars,
                   asked, tried, searched, searches, writes, before>>

\* getCache: await fs.unlink(cachePath).catch(() => {}); return null
Route_Unlink ==
    /\ rpc = "unlink"
    /\ \/ /\ files' = [files EXCEPT ![GetCacheKey(asked)] = NoEntry]
          /\ writer' = [writer EXCEPT ![GetCacheKey(asked)] = NoCall]
       \/ UNCHANGED <<files, writer>>                          \* unlink threw: swallowed
    /\ rpc' = "search"
    /\ UNCHANGED <<requestVars, searchVars, pairVars, now, stored, reading, got,
                   asked, tried, searched, searches, writes, before, answer>>

\* analyzeSearchQuery, then the call of the search function; searchGutenberg
\* and searchOpenLibrary return a book list or throw
Route_Search ==
    /\ rpc = "search"
    /\ searches' = searches + 1
    /\ IF asked.source = "libgen"
       THEN rpc' = "mirror" /\ UNCHANGED <<searched, answer>>
       ELSE \/ \E found \in BookLists : rpc' = "store" /\ searched' = found /\ UNCHANGED answer
            \/ rpc' = "done" /\ answer' = Answer(500, FALSE, NULL, "search failed") /\ UNCHANGED searched
    /\ UNCHANGED <<requestVars, searchVars, pairVars, cacheVars, asked, tried, writes, before>>

\* the variant that takes a mirror's empty book list for a failure
SearchLibgen_MirrorSkipsEmpty ==
    /\ rpc = "mirror"
    /\ LET mirror == LIBGEN_MIRRORS[Len(tried) + 1]
       IN \/ /\ tried' = Append(tried, TriedMirror(mirror, TRUE))
             /\ rpc' = "store" /\ searched' = "result A" /\ UNCHANGED answer
          \/ /\ tried' = Append(tried, TriedMirror(mirror, FALSE))
             /\ UNCHANGED searched
             /\ IF Len(tried') < Len(LIBGEN_MIRRORS)
                THEN UNCHANGED <<rpc, answer>>
                ELSE /\ rpc' = "done"
                     /\ answer' = Answer(500, FALSE, NULL, "All Library Genesis mirrors failed")
          \/ /\ tried' = Append(tried, TriedMirror(mirror, TRUE))
             /\ UNCHANGED searched
             /\ IF Len(tried') < Len(LIBGEN_MIRRORS)
                THEN UNCHANGED <<rpc, answer>>
                ELSE /\ rpc' = "done"
                     /\ answer' = Answer(500, FALSE, NULL, "All Library Genesis mirrors failed")
    /\ UNCHANGED <<requestVars, searchVars, pairVars, cacheVars, asked, searches, writes, before>>

\* searchLibgen: one turn of the loop over LIBGEN_MIRRORS, and the throw after
\* the loop when the last mirror failed
SearchLibgen_Mirror ==
    /\ rpc = "mirror"
    /\ LET mirror == LIBGEN_MIRRORS[Len(tried) + 1]
       IN \/ \E found \in BookLists :                                 \* request, parse, filter and sort succeeded
               /\ tried' = Append(tried, TriedMirror(mirror, TRUE))
               /\ rpc' = "store" /\ searched' = found /\ UNCHANGED answer
          \/ /\ tried' = Append(tried, TriedMirror(mirror, FALSE))    \* one of them threw: continue
             /\ UNCHANGED searched
             /\ IF Len(tried') < Len(LIBGEN_MIRRORS)
                THEN UNCHANGED <<rpc, answer>>
                ELSE /\ rpc' = "done"
                     /\ answer' = Answer(500, FALSE, NULL, "All Library Genesis mirrors failed")
    /\ UNCHANGED <<requestVars, searchVars, pairVars, cacheVars, asked, searches, writes, before>>

\* the variant whose catch block stores an empty result before it answers
Route_StoreOrFail ==
    /\ rpc \in {"store", "done"} /\ answer.status \in {0, 500} /\ writes = 0
    /\ writes' = writes + 1
    /\ files' = [files EXCEPT ![GetCacheKey(asked)] =
                     [data |-> IF rpc = "store" THEN searched ELSE "no books",
                      timestamp |-> now, expiresAt |-> now + CACHE_DURATION]]
    /\ writer' = [writer EXCEPT ![GetCacheKey(asked)] = asked]
    /\ stored' = [stored EXCEPT ![asked] = [data |-> files'[GetCacheKey(asked)].data, at |-> now]]
    /\ rpc' = "done"
    /\ answer' = IF rpc = "store" THEN Answer(200, FALSE, searched, NULL) ELSE answer
    /\ UNCHANGED <<requestVars, searchVars, pairVars, now, reading, got,
                   asked, tried, searched, searches, before>>

\* setCache(source, query, result, page), then the response with the result
Route_Store ==
    /\ rpc = "store"
    /\ writes' = writes + 1
    /\ \/ /\ files' = [files EXCEPT ![GetCacheKey(asked)] =
                            [data |-> searched, timestamp |-> now, expiresAt |-> now + CACHE_DURATION]]
          /\ writer' = [writer EXCEPT ![GetCacheKey(asked)] = asked]
          /\ stored' = [stored EXCEPT ![asked] = [data |-> searched, at |-> now]]
       \/ UNCHANGED <<files, writer, stored>>                  \* mkdir or writeFile threw: logged
    /\ rpc' = "done"
    /\ answer' = Answer(200, FALSE, searched, NULL)
    /\ UNCHANGED <<requestVars, searchVars, pairVars, now, reading, got,
                   asked, tried, searched, searches, before>>

\* the response is sent; the next request can arrive
Route_Respond ==
    /\ rpc = "done"
    /\ rpc' = "idle"
    /\ UNCHANGED <<requestVars, searchVars, pairVars, cacheVars,
                   asked, tried, searched, searches, writes, before, answer>>

RouteNext ==
    \/ Cache_Tick
    \/ Route_Start
    \/ Route_GetCache
    \/ Route_Unlink
    \/ Route_Search
    \/ SearchLibgen_Mirror
    \/ Route_Store
    \/ Route_Respond

RouteSpec == RouteInit /\ [][RouteNext]_vars

\***************************************************************************
\* Two playwrightGetDownload calls at the same time
\***************************************************************************

\* the variant with one set of locals for every call
SharedFrame(i) == 1

\* the activation record that holds the locals of call i
Frame(i) == i

\* what the site shows a call: the page at startUrl, the popups it opens,
\* whether the first navigation times out
CallInputs ==
    [startUrl : {"https://libgen.is/book/index.php?md5=abc", "https://libgen.is/get.php?md5=abc"},
     doc : {<<>>, <<DownloadAnchor>>}, popups : 0..1, gotoFails : BOOLEAN]

PairInit ==
    /\ NoRequest /\ NoSearch /\ NoCache /\ NoLookup
    /\ callPc = [i \in Calls |-> "launch"]
    /\ callInput \in [Calls -> CallInputs]
    /\ frames = [i \in Calls |-> NoFrame]
    /\ callResult = [i \in Calls |-> NoRet]

\* chromium.launch, newContext, the popup registry, newPage, the request listener
Pair_Launch(i) ==
    /\ callPc[i] = "launch"
    /\ frames' = [frames EXCEPT ![Frame(i)] =
                     [browser |-> [id |-> i, closed |-> 0], page |-> NoPage, popups |-> <<>>,
                      downloadUrls |-> <<>>, downloadLink |-> NULL]]
    /\ callPc' = [callPc EXCEPT ![i] = "goto"]
    /\ UNCHANGED <<requestVars, searchVars, cacheVars, searchRouteVars, callInput, callResult>>

\* page.goto(startUrl): the request listener sees the request
Pair_Goto(i) ==
    /\ callPc[i] = "goto"
    /\ IF callInput[i].gotoFails
       THEN callPc' = [callPc EXCEPT ![i] = "catch"] /\ UNCHANGED frames
       ELSE /\ frames' = [frames EXCEPT
                            ![Frame(i)].page = PageAt(callInput[i].startUrl, callInput[i].doc),
                            ![Frame(i)].downloadUrls =
                                IF IsDownloadRequest(callInput[i].startUrl)
                                THEN Append(@, callInput[i].startUrl) ELSE @]
            /\ callPc' = [callPc EXCEPT ![i] = "find"]
    /\ UNCHANGED <<requestVars, searchVars, cacheVars, searchRouteVars, callInput, callResult>>

\* context.on('page'): popups.push(newPage), in the context of call i
Pair_Popup(i) ==
    /\ callPc[i] \in {"goto", "find"}
    /\ Cardinality({ k \in DOMAIN frames[Frame(i)].popups : frames[Frame(i)].popups[k] = i })
          < callInput[i].popups
    /\ frames' = [frames EXCEPT ![Frame(i)].popups = Append(@, i)]
    /\ UNCHANGED <<requestVars, searchVars, cacheVars, searchRouteVars, callPc, callInput, callResult>>

\* findDownloadLink on the page of call i (the immediate link)
Pair_Find(i) ==
    /\ callPc[i] = "find"
    /\ frames' = [frames EXCEPT ![Frame(i)].downloadLink = ImmediateLink(frames[Frame(i)].page)]
    /\ callPc' = [callPc EXCEPT ![i] = "close"]
    /\ UNCHANGED <<requestVars, searchVars, cacheVars, searchRouteVars, callInput, callResult>>

\* await browser.close() and the result
Pair_Close(i) ==
    /\ callPc[i] = "close"
    /\ frames' = [frames EXCEPT ![Frame(i)].browser.closed = @ + 1]
    /\ LET result == PlaywrightResult(frames[Frame(i)].downloadLink, frames[Frame(i)].downloadUrls)
       IN callResult' = [callResult EXCEPT ![i] =
                            IF Truthy(result) THEN [t |-> "val", v |-> result]
                            ELSE [t |-> "err", v |-> "No download link found after Playwright navigation"]]
    /\ callPc' = [callPc EXCEPT ![i] = "done"]
    /\ UNCHANGED <<requestVars, searchVars, cacheVars, searchRouteVars, callInput>>

\* catch (error) { console.error(...); throw error }
Pair_Catch(i) ==
    /\ callPc[i] = "catch"
    /\ UNCHANGED frames
    /\ callResult' = [callResult EXCEPT ![i] = [t |-> "err", v |-> "goto"]]
    /\ callPc' = [callPc EXCEPT ![i] = "done"]
    /\ UNCHANGED <<requestVars, searchVars, cacheVars, searchRouteVars, callInput>>

PairNext ==
    \/ \E i \in Calls : Pair_Launch(i)
    \/ \E i \in Calls : Pair_Goto(i)
    \/ \E i \in Calls : Pair_Popup(i)
    \/ \E i \in Calls : Pair_Find(i)
    \/ \E i \in Calls : Pair_Close(i)
    \/ \E i \in Calls : Pair_Catch(i)

PairSpec == PairInit /\ [][PairNext]_vars

\***************************************************************************
\* Properties
\***************************************************************************

\* the elements of a sequence
Range(seq) == { seq[i] : i \in DOMAIN seq }

\* how many times x occurs in seq
Count(seq, x) == Cardinality({ i \in DOMAIN seq : seq[i] = x })

\* close() calls received by each browser launched so far
CloseCounts == BagToSet(sessions) \cup (IF browser = NoBrowser THEN {} ELSE {browser})

\* the sources the specification lists as trusted
DeclaredTrusted == {"archive", "openlibrary", "gutenberg", "standardebooks"}

\* the fast path: the entry URL handed back, nothing fetched, no browser
FastPath ==
    /\ httpFetches = 0
    /\ Launches = 0
    /\ pc = "done" => response = Response(200, "redirect", NULL, downloadUrl)

\* C1 as stated: a download request with a trusted source gets the entry URL
\* back unchanged, with no HTTP fetch and no browser launch, whatever the
\* entry URL is.
C1_FastPathForEveryUrl ==
    (handler = "download" /\ source \in DeclaredTrusted /\ Truthy(downloadUrl)) => FastPath

\* C1: a download request with a trusted source whose entry URL starts with
\* "http" gets the entry URL back unchanged, with no HTTP fetch and no
\* browser launch.
C1_FastPathForHttpUrls ==
    (handler = "download" /\ source \in DeclaredTrusted /\ StartsWith(downloadUrl, "http")) => FastPath

C1_Witness ==
    /\ pc = "done" /\ handler = "download" /\ source = "gutenberg"
    /\ StartsWith(downloadUrl, "http")
    /\ response.kind = "redirect" /\ response.downloadUrl = downloadUrl

\* C2: when the request is over, every browser launched during it has had
\* close() called exactly once.
C2_EveryBrowserClosedOnce ==
    pc = "done" => \A n \in CloseCounts : n = 1

\* C9: one request launches at most one browser in total, across all mirror
\* candidates and fallback strategies.
C9_AtMostOneLaunch == Launches <= 1

\* the mirror candidates of smartGetLibgenDownload and their priorities
Candidates == {"annas", "randombook", "adsPhp", "libgenMirror"}

Priority(c) ==
    CASE c = "annas" -> 1 [] c = "randombook" -> 2 [] c = "adsPhp" -> 3 [] OTHER -> 4

\* the entry page offers candidate c
Offered(c) ==
    CASE c = "annas" -> Truthy(SmartAnnasLink)
      [] c = "randombook" -> Truthy(SmartRandombookLink)
      [] c = "adsPhp" -> Truthy(SmartAdsPhpLink) /\ HasOrigin(downloadUrl)
      [] OTHER -> SmartMirrorLinks # <<>>

\* attempt i of the log is candidate c and gave outcome o
Attempted(i, c, o) ==
    i \in DOMAIN attempts /\ i + 1 \in DOMAIN attempts /\ attempts[i] = c /\ attempts[i + 1] = o

\* C3: candidates are attempted in priority order (archive link, redirect
\* mirror, ad-gated page), each only after every higher-priority candidate on
\* the page was attempted and gave nothing, and none after a candidate gave a
\* link; with an archive link and an ad-gated link on the page and the archive
\* attempt giving a link, the ad-gated path is never invoked.  The older
\* getLibgenDownloadLink picks its link in the same order.
C3_PriorityOrderFirstSuccess ==
    /\ \A i, j \in DOMAIN attempts :
         (i < j /\ attempts[i] \in Candidates /\ attempts[j] \in Candidates) =>
            \/ Priority(attempts[i]) < Priority(attempts[j])
            \/ attempts[i] = "libgenMirror" /\ attempts[j] = "libgenMirror"
    /\ \A j \in DOMAIN attempts : \A c \in Candidates :
         (attempts[j] \in Candidates /\ Priority(c) < Priority(attempts[j]) /\ Offered(c)) =>
            \E i \in 1..(j - 1) : Attempted(i, c, "nothing")
    /\ \A i, j \in DOMAIN attempts :
         (i < j /\ attempts[i] = "found") => attempts[j] \notin Candidates
    /\ (Offered("annas") /\ Offered("adsPhp") /\ \E i \in DOMAIN attempts : Attempted(i, "annas", "found")) =>
            "adsPhp" \notin Range(attempts) /\ "libgenMirror" \notin Range(attempts)
    /\ Offered("annas") => GetLibgenDownloadLink(entryPage, downloadUrl) = SmartAnnasLink
    /\ (~Offered("annas") /\ Offered("randombook")) =>
            GetLibgenDownloadLink(entryPage, downloadUrl) = SmartRandombookLink
    /\ (~Offered("annas") /\ ~Offered("randombook") /\ Offered("adsPhp")) =>
            GetLibgenDownloadLink(entryPage, downloadUrl) = Origin(downloadUrl) \o SmartAdsPhpLink

C3_Witness ==
    /\ Offered("annas") /\ Offered("adsPhp")
    /\ attempts = <<"smart", "annas", "found">>
    /\ pc = "done"

\* a link with the exact text GET, the href of the download endpoint, and visible
Genuine(a) ==
    /\ ToUpperCase(Trim(a.text)) = "GET"
    /\ Truthy(a.href) /\ Includes(a.href, "/get.php?md5=") /\ Includes(a.href, "&key=")
    /\ a.visible

\* url is the address of a genuine link of the page the navigator is on
FromGenuineLink(url) ==
    \E k \in DOMAIN page.doc : Genuine(page.doc[k]) /\ FullUrl(page.doc[k].href, page.url) = url

\* C4: a link is taken as the download target only if its text is exactly GET
\* (case-insensitive), its href matches the download endpoint and it is
\* visible, in extractGetLinkFromPage (fallback included) and in
\* extractLibgenGetLink.
C4_OnlyGenuineLinks ==
    /\ (pc \in {"sm_ads_ret", "sm_mirror_ret"} /\ Truthy(ret.v)) => FromGenuineLink(ret.v)
    /\ pc = "gl_wait" => FromGenuineLink(fullUrl)

NoMirrorPattern(doc) ==
    \A k \in DOMAIN doc :
        /\ \A h \in {"annas-archive.org", "randombook.org", "/ads.php", "libgen.li", "/get.php", "/download/"} :
             ~HrefHas(doc[k], h)
        /\ \A t \in {"libgen", "mirror", "get", "download"} : ~HasText(doc[k], t)

\* C6: a LibGen request whose entry page shows no mirror pattern, and whose
\* rendering shows no timer, refresh or frame either, ends with the 400
\* response that carries the entry URL; every request ends with a response.
C6_NoMirrorFoundIsAResponse ==
    pc = "done" =>
        /\ stack = <<>> /\ response.status \in {200, 400, 500}
        /\ (source = "libgen" /\ attempts # <<>> /\ NoMirrorPattern(entryPage) /\ patterns = {}) =>
              response = Response(400, "manual", downloadUrl, NULL)

C6_Witness ==
    /\ pc = "done" /\ source = "libgen" /\ NoMirrorPattern(entryPage) /\ patterns = {}
    /\ attempts # <<>> /\ attempts[Len(attempts)] = "playwright" /\ faults = 0
    /\ response.kind = "manual"

\* the entry page has a link to the ad-gated ads.php page
HasAdGate == \E k \in DOMAIN entryPage : HrefHas(entryPage[k], "/ads.php")

\* the last strategy came back without a link
NothingFound ==
    \/ pc \in {"dl_playwright", "kd_playwright"} /\ ret.t = "err"
    \/ pc \in {"kd_smart", "kd_playwright"} /\ ret.t = "val" /\ (~Truthy(ret.v) \/ ret.v = downloadUrl)

C8_EveryFailureNamesEntryUrl ==
    (pc = "done" /\ handler \in {"download", "kindle"} /\ kindleEmail # NotAString
                 /\ response.kind \in {"manual", "error"}) =>
        (response.libgenUrl = downloadUrl \/ response.downloadUrl = downloadUrl)

\* C10: once findDownloadLink or the request listener has a link, an error of
\* browser.close() does not keep playwrightGetDownload from returning it.
C10_CloseErrorKeepsOutcome ==
    [][(pc = "pw_close" /\ (Truthy(ret.v) \/ downloadUrls # <<>>)) =>
          (ret'.t = "val" /\ ret'.v = (IF Truthy(ret.v) THEN ret.v ELSE downloadUrls[1]))]_vars

\* every link of the entry page is a link to the archive's md5 page
OnlyArchiveLink ==
    /\ source = "libgen" /\ entryPage # <<>>
    /\ \A k \in DOMAIN entryPage : HrefHas(entryPage[k], "annas-archive.org/md5")

\* the http links a selector of resolveAnnasArchive can pick on the archive's page
ArchiveDirectLinks ==
    UNION { { doc[k].href : k \in DOMAIN doc } : doc \in AnnasPages } \cap
    { "https://ipfs.io/ipfs/abc", "https://files.example/abc.epub" }

\* C11 as stated: with only an archive link on the entry page the URL the
\* resolution returns is that link's href and no browser is launched.
C11_ArchiveHrefWithoutBrowser ==
    (pc = "sm_annas_ret" /\ OnlyArchiveLink /\ Truthy(ret.v)) =>
        (Launches = 0 /\ ret.v = SmartAnnasLink)

\* C11: with only an archive link on the entry page, getLibgenDownloadLink
\* returns that link's href; smartGetLibgenDownload fetches the archive page
\* and, when it launched no browser, its result is a direct http link of that
\* page picked by the selectors, never the archive link's own href.
C11_ArchivePageDirectLink ==
    OnlyArchiveLink =>
        /\ GetLibgenDownloadLink(entryPage, downloadUrl) = SmartAnnasLink
        /\ (pc = "sm_annas_ret" /\ Launches = 0 /\ Truthy(ret.v)) =>
              (ret.v \in ArchiveDirectLinks /\ ret.v # SmartAnnasLink /\ httpFetches = 2)
        /\ (pc = "done" /\ handler = "kindle" /\ attempts # <<>> /\ Launches = 0 /\ response.status # 400) =>
              actualDownloadUrl \in ArchiveDirectLinks

C11_Witness ==
    /\ pc = "done" /\ OnlyArchiveLink /\ Launches = 0
    /\ attempts = <<"smart", "annas", "found">>
    /\ actualDownloadUrl = "https://ipfs.io/ipfs/abc"

\* C12: when a download event fired after the click on the GET link, the
\* outcome of the navigation is the file's bytes (a data: URI), not a URL.
C12_DownloadEventYieldsBytes ==
    [][(pc = "gl_download" /\ Truthy(download')) => StartsWith(ret'.v, "data:")]_vars

\* C13: when the resolver's result is the file's bytes as a data: URI, the
\* handler that delivers it, download or send-to-kindle, makes no further
\* HTTP request for it.
C13_BytesAreNotFetchedAgain ==
    [][(pc \in {"dl_deliver", "kd_deliver"} /\ source = "libgen"
            /\ StartsWith(actualDownloadUrl, "data:") /\ actualDownloadUrl # downloadUrl)
        => httpFetches' = httpFetches]_vars

\* every candidate the entry page offers was attempted and gave nothing
AllCandidatesExhausted ==
    /\ \A c \in Candidates \ {"libgenMirror"} :
         Offered(c) => \E i \in DOMAIN attempts : Attempted(i, c, "nothing")
    /\ Count(attempts, "libgenMirror") = Len(SmartMirrorLinks)
    /\ "found" \notin Range(attempts)

\* C14: a failure inside one candidate's attempt never reaches
\* smartGetLibgenDownload as an error: the attempt ends with a value, a
\* failed attempt gives nothing and the next candidate is tried, and
\* smartGetLibgenDownload throws only when the entry page could not be
\* fetched or every candidate it offers was attempted and gave nothing.
C14_FailureAdvancesToNextCandidate ==
    /\ []((pc \in {"sm_annas_ret", "sm_random_ret", "sm_ads_ret", "sm_mirror_ret"}) => ret.t = "val")
    /\ []((pc = "kd_smart" /\ ret.t = "err") => (attempts = <<"smart">> \/ AllCandidatesExhausted))
    /\ [][(pc \in {"sm_annas_ret", "sm_random_ret", "sm_ads_ret", "sm_mirror_ret"} /\ ~Truthy(ret.v))
            => pc' \in {"sm_random", "sm_ads", "sm_mirror"}]_vars

C14_Witness ==
    /\ pc = "rp_launch" /\ faults = 1
    /\ attempts = <<"smart", "annas", "nothing", "adsPhp">>

\* C15 as stated: a browser is launched only by a headless fallback that
\* follows a failed HTTP resolution: playwrightGetDownload after the first
\* stage failed, or a navigator after the HTTP fetch of its page gave no link.
C15_BrowserOnlyAfterHttpFailed ==
    [][Launches' > Launches => pc \in {"pw_launch", "na_launch", "nr_launch"}]_vars

\* C15: the download handler runs the HTTP-only resolver first and launches a
\* browser only after it failed; a usable URL from it goes to delivery with no
\* browser launched.  The send-to-kindle handler runs playwrightGetDownload
\* only after smartGetLibgenDownload threw, and smartGetLibgenDownload may
\* itself have launched browsers for its candidates.
C15_HttpFirstThenBrowser ==
    /\ [][(pc = "dl_serverless" /\ ret.t = "val" /\ Truthy(ret.v) /\ ret.v # downloadUrl)
            => (pc' = "dl_deliver" /\ attempts' = attempts /\ actualDownloadUrl' = ret.v)]_vars
    /\ []((handler = "download" /\ Launches > 0) => attempts = <<"serverless", "playwright">>)
    /\ []((handler = "download" /\ attempts = <<"serverless">>) => Launches = 0)
    /\ []((handler = "kindle" /\ "playwright" \in Range(attempts)) =>
            (attempts[1] = "smart" /\ "found" \notin Range(attempts)
             /\ attempts[Len(attempts)] = "playwright"))
    /\ [][(pc = "kd_smart" /\ ret.t = "val") => attempts' = attempts]_vars

C15_Witness ==
    /\ pc = "done" /\ handler = "download" /\ source = "libgen"
    /\ attempts = <<"serverless">> /\ Launches = 0
    /\ response.status = 200 /\ actualDownloadUrl # downloadUrl

\* the second navigation completed and no download event has fired yet
NavigationCompletedFirst ==
    pc = "gl_download" /\ ~Truthy(download) /\ page.url \in GetLandings(fullUrl)

\* C16 as stated: when the navigation completes before any download event,
\* the outcome is decided by the landed URL, without a further wait for a
\* download event.
C16_NavigationFirstDecides ==
    [][(NavigationCompletedFirst /\ pc' # pc) =>
        (~Truthy(download')
         /\ ret'.v = (IF page.url \notin {fullUrl, "about:blank"} THEN page.url ELSE fullUrl))]_vars

\* C16: after the second navigation, completed or interrupted, the function
\* waits for the download event; a download event that fires, during or
\* after the navigation, decides the outcome with its URL, and only when none
\* fires is the outcome the landed URL, or the link's URL when the page
\* landed on it or on about:blank.
C16_DownloadEventDecides ==
    [][(pc = "gl_download" /\ pc' # pc) =>
        /\ ret'.t = "val"
        /\ Truthy(download') => ret'.v = download'
        /\ ~Truthy(download') =>
              ret'.v = (IF page.url \notin {fullUrl, "about:blank"} THEN page.url ELSE fullUrl)]_vars

C16_Witness ==
    /\ page.url = "https://ads.example/landing" /\ trace # <<>> /\ trace[Len(trace)] = "goto"
    /\ download = "https://cdn.example/abc.epub" /\ ret.v = download

\* C17: after the click on the GET link, the navigation hands back a URL
\* only when a download event delivered it or it matches the file-extension
\* pattern; otherwise it hands back no URL.
C17_UrlOnlyFromDownloadOrFile ==
    (pc = "pw_close" /\ "click" \in Range(trace) /\ ret.t = "val" /\ Truthy(ret.v)) =>
        \/ Truthy(download) /\ ret.v = download
        \/ IsFileUrl(ret.v)

\* C18: every click on a gate element, the mirror link in handleLibgenFlow
\* and the GET link in extractLibgenGetLink, is immediately preceded by a
\* human-behaviour simulation that ran to its end.
C18_EvasionBeforeEveryClick ==
    [][((pc = "hf_click" /\ pc' # pc) \/ (pc = "gl_link" /\ trace' = Append(trace, "click")))
        => evaded]_vars

\* C19: when a sub-step of the human-behaviour simulation fails, the failure
\* is swallowed and the same link is clicked next.
C19_EvasionFailureStillClicks ==
    [][(pc = "hf_evade" /\ faults' > faults) => (pc' = "hf_click" /\ idx' = idx)]_vars

\* $(selector).first().attr('href') of an a[href*="s"] selector
SelectorHit(doc, s) ==
    IF \E i \in DOMAIN doc : HrefHas(doc[i], s)
    THEN doc[CHOOSE i \in DOMAIN doc : HrefHas(doc[i], s) /\ \A j \in 1..(i - 1) : ~HrefHas(doc[j], s)].href
    ELSE NULL

\* the documents and the selector list of the resolver about to extract a link
ExtractionInputs ==
    IF pc = "ra_http" THEN { <<doc, AnnasSelectors>> : doc \in AnnasPages }
    ELSE IF pc = "rr_http" THEN { <<doc, RandombookSelectors>> : doc \in RandombookPages }
    ELSE {}

C21_PopupsClosedBeforeTeardown ==
    pc = "pw_close" => \A i \in DOMAIN popups : popups[i] >= 1

\* C22: within one playwrightGetDownload call the popups list only grows:
\* no step before the function ends shortens it, and an entry, once in the
\* list, stays at its position (its count of close calls never goes down).
C22_PopupsAppendOnly ==
    [][pc # "pw_close" =>
        /\ Len(popups') >= Len(popups)
        /\ \A i \in DOMAIN popups : popups'[i] >= popups[i]]_vars

C22_Witness ==
    /\ pc \in {"gl_goto", "gl_download"}
    /\ Len(popups) = 2 /\ popups[1] >= 1 /\ popups[2] = 0

\* the steps of the mirror candidates' resolvers and navigators
CandidateSteps ==
    { "ra_http", "ra_first", "ra_retry", "na_launch", "na_goto", "na_button", "na_links", "na_catch",
      "rr_http", "rr_first", "rr_retry", "nr_launch", "nr_goto", "nr_button", "nr_catch",
      "rp_launch", "rp_goto", "rp_catch", "nm_launch", "nm_goto", "nm_click", "nm_catch" }

CandidateResults == { "sm_annas_ret", "sm_random_ret", "sm_ads_ret", "sm_mirror_ret" }

C30_PlaywrightRunAtMostOnce ==
    [][(pc \in {"ra_first", "rr_first"}) => (pc' \notin {"na_launch", "nr_launch"})]_vars

C27_UnresolvedResultIsNeverFetched ==
    (source = "libgen" /\ pc \in {"dl_deliver", "kd_deliver"}) =>
        (Truthy(actualDownloadUrl) /\ actualDownloadUrl # downloadUrl)

\* C28: every call of playwrightGetDownload comes back to the handler that
\* made it, whatever the pages show, meta-refresh cycles included.
C28_PlaywrightCallTerminates ==
    (pc = "pw_launch") ~> (pc \in {"dl_playwright", "kd_playwright"})

\* the query types whose metadata the book has, most specific first
PresentTypes ==
    SelectSeq(<<"isbn", "md5", "title-author", "title", "author">>,
              LAMBDA t : CASE t = "isbn" -> Truthy(book.isbn)
                           [] t = "md5" -> Truthy(book.md5)
                           [] t = "title-author" -> Truthy(book.title) /\ Truthy(book.author)
                           [] t = "title" -> Truthy(book.title)
                           [] t = "author" -> Truthy(book.author))

\* C26: the queries of cascadingMetadataSearch are issued in the order ISBN,
\* MD5, title+author, title, author, those without metadata left out; every
\* query before the last one issued gave fewer than minResults books (or
\* threw), and the search returns as soon as one gives minResults or more.
C26_CascadeOrderAndStop ==
    /\ Len(issued) <= Len(PresentTypes)
    /\ \A i \in DOMAIN issued : issued[i].type = PresentTypes[i]
    /\ \A i \in 1..(Len(issued) - 1) : issued[i].found < MinResults
    /\ (issued # <<>> /\ issued[Len(issued)].found >= MinResults) =>
          /\ usedQuery.success
          /\ usedQuery.queryType = issued[Len(issued)].type
          /\ usedQuery.booksFound = issued[Len(issued)].found
    /\ (usedQuery # NoQuery /\ ~usedQuery.success) => Len(issued) = Len(PresentTypes)

C26_Witness ==
    /\ usedQuery.success /\ usedQuery.queryType = "title"
    /\ ~Truthy(book.isbn) /\ Truthy(book.md5)
    /\ Len(issued) = 3 /\ issued[1].found = Threw /\ issued[2].found = 1 /\ MinResults = 2

\* C25: what getCache returns for (source, query, page) is the result that
\* setCache stored for that (source, query, page), and less than 24 hours
\* have passed since it was stored.
C25_HitIsTheFreshStoredResult ==
    got.data # NULL =>
        /\ stored[got.key] # NoStore
        /\ got.data = stored[got.key].data
        /\ got.at < stored[got.key].at + CACHE_DURATION

\* what a call with this input gives when it runs alone
SoloResult(input) ==
    IF input.gotoFails THEN [t |-> "err", v |-> "goto"]
    ELSE IF input.doc # <<>> THEN [t |-> "val", v |-> input.doc[1].href]
    ELSE IF IsDownloadRequest(input.startUrl) THEN [t |-> "val", v |-> input.startUrl]
    ELSE [t |-> "err", v |-> "No download link found after Playwright navigation"]

\* C23: of two playwrightGetDownload calls that run at the same time, each
\* ends, under every interleaving, with the result it gives alone, with its
\* own browser (closed once unless the navigation threw), its own page, and
\* only its own popups and captured URLs in its lists.
C23_ConcurrentCallsAreIndependent ==
    \A i \in Calls :
        /\ callPc[i] = "done" =>
              /\ callResult[i] = SoloResult(callInput[i])
              /\ frames[i].browser = [id |-> i, closed |-> IF callInput[i].gotoFails THEN 0 ELSE 1]
        /\ callPc[i] \notin {"idle", "launch"} =>
              /\ \A k \in DOMAIN frames[i].popups : frames[i].popups[k] = i
              /\ \A k \in DOMAIN frames[i].downloadUrls : frames[i].downloadUrls[k] = callInput[i].startUrl
              /\ frames[i].page \in {NoPage, PageAt(callInput[i].startUrl, callInput[i].doc)}

C23_Witness ==
    /\ callPc[1] = "done" /\ callPc[2] = "close"
    /\ callInput[1].startUrl # callInput[2].startUrl
    /\ callInput[1].doc = <<>> /\ callInput[2].doc # <<>>
    /\ callResult[1] = [t |-> "val", v |-> "https://libgen.is/get.php?md5=abc"]
    /\ Len(frames[1].popups) = 1 /\ Len(frames[2].popups) = 1

\* C31: in handleLibgenFlow the pointer simulation and the click on a mirror
\* link run only after the direct HTTP fetch of its ads.php page was made and
\* failed or showed no GET link; a fetch that shows a GET link ends the
\* function with that link, with no simulation and no click.
C31_HttpBeforeClick ==
    /\ [](pc \in {"hf_evade", "hf_click"} => adsHttp \in {"failed", "no GET link"})
    /\ [][(pc = "hf_link" /\ pc' = "hf_evade") => httpFetches' = httpFetches + 1]_vars
    /\ [][(pc = "hf_link" /\ adsHttp' = "GET link") =>
             /\ pc' = "fd_libgen" /\ ret'.t = "val" /\ Truthy(ret'.v)
             /\ UNCHANGED <<evaded, trace, page>>]_vars

C31_Witness ==
    /\ pc = "hf_click" /\ adsHttp = "no GET link" /\ evaded /\ faults = 0

\* C32: the data getCache returns for (source, query, page) comes from a file
\* that a setCache with the same source, the same query string and the same
\* page wrote: a call for one query string never reads what was cached for
\* another.
C32_HitReadsItsOwnQuery ==
    got.data # NULL => writer[GetCacheKey(got.key)] = got.key

\* the searchFn calls so far all threw or gave fewer than minResults books
AllFell == \A i \in DOMAIN issued : issued[i].found = Threw \/ issued[i].found < MinResults

\* C36: an error of the search function for one query does not end
\* cascadingMetadataSearch: the function goes on to the next query; it returns
\* and never throws, and when every query threw or gave fewer than minResults
\* books it has tried every query and returns an empty list, success false.
C36_SearchErrorsDoNotAbort ==
    /\ [](books # Threw)
    /\ []((books # Running /\ AllFell) =>
             /\ Len(issued) = Len(BuildMetadataQueries(book))
             /\ books = 0 /\ ~usedQuery.success /\ usedQuery.booksFound = 0)
    /\ [][(issued' # issued /\ issued'[Len(issued')].found = Threw) =>
             /\ usedQuery' = NoQuery /\ books' = Running /\ qi' = qi + 1]_vars

C36_Witness ==
    /\ books = 0 /\ ~usedQuery.success
    /\ Len(issued) = 3 /\ issued[1].found = Threw /\ issued[2].found = 0 /\ issued[3].found = Threw

\* the recipient address ends with @kindle.com or @free.kindle.com and the
\* required fields of the handler are present
AcceptableKindleRequest ==
    /\ kindleEmail # NotAString
    /\ EndsWith(kindleEmail, "@kindle.com") \/ EndsWith(kindleEmail, "@free.kindle.com")
    /\ handler = "kindle" => Truthy(bookTitle) /\ Truthy(downloadUrl)
    /\ handler = "upload" => file # NoFile

\* C33: a send-to-Kindle or upload-to-Kindle request whose recipient address
\* does not end with @kindle.com or @free.kindle.com, or that lacks a required
\* field, sends no mail and starts no link resolution and no download; it is
\* answered with status 400 and has no other effect.
C33_RejectedRequestGets400 ==
    (handler \in {"kindle", "upload"} /\ ~AcceptableKindleRequest) =>
        /\ mailsSent = 0 /\ httpFetches = 0 /\ attempts = <<>>
        /\ sessions = EmptyBag /\ browser = NoBrowser
        /\ pc \in {"start", "done"}
        /\ pc = "done" => response.status = 400

\* searchLibgen has returned: the route is about to store its book list
LibgenReturned == asked.source = "libgen" /\ rpc = "store"

\* searchLibgen has thrown: the route answered with the error's message
LibgenThrew == rpc = "done" /\ answer.message = "All Library Genesis mirrors failed"

\* C34: searchLibgen requests the mirrors in the order of LIBGEN_MIRRORS, each
\* at most once and only after every earlier one failed; it returns the book
\* list of the first mirror that answered, an empty list included, and
\* requests no mirror after it; it throws only after all mirrors failed.
C34_FirstWorkingMirror ==
    /\ [](/\ Len(tried) <= Len(LIBGEN_MIRRORS)
          /\ \A i \in DOMAIN tried : tried[i].mirror = LIBGEN_MIRRORS[i]
          /\ \A i \in 1..(Len(tried) - 1) : ~tried[i].ok)
    /\ [](LibgenReturned => (tried # <<>> /\ tried[Len(tried)].ok))
    /\ [](LibgenThrew => (Len(tried) = Len(LIBGEN_MIRRORS) /\ \A i \in DOMAIN tried : ~tried[i].ok))
    /\ [][(rpc = "mirror" /\ tried' # tried /\ tried'[Len(tried')].ok) =>
             (rpc' = "store" /\ searched' \in BookLists)]_vars
    /\ [][(rpc = "mirror" /\ tried' # tried /\ ~tried'[Len(tried')].ok /\ Len(tried') < Len(LIBGEN_MIRRORS)) =>
             rpc' = "mirror"]_vars
    /\ [][(tried # <<>> /\ tried[Len(tried)].ok) => (tried' = tried \/ tried' = <<>>)]_vars

C34_Witness ==
    /\ LibgenReturned /\ searched = "no books"
    /\ Len(tried) = 2 /\ ~tried[1].ok /\ tried[2].ok

\* the files of the cache directory are as they were when the request came,
\* except that entries that had expired by now may be gone
OnlyExpiredEntriesGone ==
    \A p \in DOMAIN files :
        \/ files[p] = before[p]
        \/ files[p] = NoEntry /\ before[p].expiresAt <= now

\* C35: a request answered from the cache (cached = true) has called no
\* search function and no setCache and left the cache files as they were; a
\* request that missed the cache has called the search function once when it
\* is answered, has called setCache at most once and only after the search
\* returned, and when the search failed the cache holds what it held before.
C35_HitNeitherSearchesNorWrites ==
    /\ answer.cached =>
          /\ searches = 0 /\ writes = 0 /\ files = before
          /\ answer.status = 200 /\ answer.data = before[GetCacheKey(asked)].data
    /\ (rpc = "done" /\ answer.status # 400 /\ ~answer.cached) =>
          /\ searches = 1
          /\ writes = (IF answer.status = 200 THEN 1 ELSE 0)
          /\ answer.status = 500 => OnlyExpiredEntriesGone
    /\ writes > 0 => (searches = 1 /\ searched \in BookLists)
    /\ searches <= 1 /\ writes <= 1

C35_Witness ==
    /\ rpc = "done" /\ answer.status = 500 /\ searches = 1 /\ writes = 0
    /\ files = before /\ files[GetCacheKey(asked)] # NoEntry
====
